---- MODULE Spec2Model ----
(***************************************************************************)
(* A model of validatebackups (main.go, validateBackups.go): bucket        *)
(* freshness validation, sampling, the resume file and the resumable       *)
(* download pipeline with retry and size/CRC32C verification.              *)
(*                                                                         *)
(* Strings that the code takes apart (object keys, local paths, bucket     *)
(* names) are sequences of one-character strings.  The key universe holds  *)
(* no ".", ".." or empty path segment, so filepath.Clean leaves every      *)
(* joined path as it is.  File contents are sequences of bytes.            *)
(***************************************************************************)
EXTENDS Integers, Sequences, FiniteSets, TLC

VARIABLES
  pc,             \* position of the running program
  remote,         \* the object store: bucket name -> sequence of objects
  now,            \* the wall clock: hours, and the calendar year and month
  config,         \* the Config loaded from the configuration file
  localFiles,     \* the local file system: path -> contents
  inProgressFile, \* ./downloadsInProgress.json: NoFile or its text
  bucketToFilesMapping, \* the mapping main builds by sampling (main.go:117)
  mapping,        \* the []BucketAndFiles handed to the download pipeline
  bi,             \* index of the bucket in the range loop of the current phase
  fi,             \* index of the file being downloaded (range loop, :180)
  retryCount,     \* retryCount of downloadFilesFromBucket (:191)
  bucketName,     \* bucketName of downloadFilesFromBucket (:174)
  nameErr,        \* err left by getBucketName in downloadFilesFromBucket (:176)
  dlErr,          \* what downloadFilesFromBucketAndFiles returned
  calls,          \* number of the current call of the pipeline / run of main
  call,           \* the function called on its own, with its arguments
  ret,            \* what that function returned
  sample,         \* sample and i of getRandomSampleFromPopulation (:476-477)
  hist            \* observations of the current call (history, not program state)

envVars == <<remote, now, config>>

mainVars == <<inProgressFile, bucketToFilesMapping>>

fnVars == <<call, ret, sample>>

vars == <<pc, remote, now, config, localFiles, inProgressFile,
          bucketToFilesMapping, mapping, bi, fi, retryCount, bucketName,
          nameErr, dlErr, calls, call, ret, sample, hist>>

maxRetries == config.MaxDownloadRetries

(***************************************************************************)
(* Bounds of the model.                                                    *)
(***************************************************************************)
MaxBuckets == 2      \* entries of a resume mapping
MaxFiles == 2        \* keys of one entry
MaxRetriesBound == 1 \* largest config.MaxDownloadRetries
MaxCalls == 2        \* calls of the download pipeline on one mapping
MaxLen == 2          \* bytes of a local file given to verifyDownloadedFile
MaxByte == 1         \* largest byte of such a file
MaxObjects == 2      \* objects of a bucket given to validateServerBackups
MaxAgeDays == 2      \* oldest such object, in days
MaxThreshold == 2    \* largest day threshold of the ServerBackupRules
MaxBackups == 3      \* objects of a bucket given to getServerBackupsToDownload
MaxPopulation == 3   \* population given to getRandomSampleFromPopulation
MaxListed == 4       \* objects of a bucket given to a sampling strategy
MaxWanted == 2       \* largest count of a FileDownloadRules field
MaxInt == 3          \* largest value of the int of the retry counter

(***************************************************************************)
(* Strings.                                                                *)
(***************************************************************************)
Digits == {"0", "1", "2", "3", "4", "5", "6", "7", "8", "9"}

Slash == <<"/">>

\* filepath.Join on elements that need no cleaning: empty elements are
\* dropped, the others are joined by the separator.
RECURSIVE JoinPath(_)
JoinPath(elems) ==
  IF elems = <<>> THEN <<>>
  ELSE LET rest == JoinPath(Tail(elems))
       IN  IF Head(elems) = <<>> THEN rest
           ELSE IF rest = <<>> THEN Head(elems)
           ELSE Head(elems) \o Slash \o rest

\* strings.HasPrefix
HasPrefix(s, p) == Len(p) <= Len(s) /\ SubSeq(s, 1, Len(p)) = p

(***************************************************************************)
(* Errors: the juju kind an error is classified as by errors.Is, and the   *)
(* place that made it.                                                     *)
(***************************************************************************)
Nil == [kind |-> "nil", site |-> "nil"]

Err(kind, site) == [kind |-> kind, site |-> site]

\* fmt.Errorf("...: %w", err): the kind of the wrapped error survives.
WrapW(err) == err

\* fmt.Errorf("...: %v", err): only the text is kept.
WrapV(err) == [err EXCEPT !.kind = "Other"]

\* stderrors.Join(err, closeErr) with a non-nil closeErr.
JoinClose(err) == IF err = Nil THEN Err("Other", "close") ELSE err

(***************************************************************************)
(* The universe of keys, contents and buckets.                             *)
(***************************************************************************)
K1 == <<"2", "0", "1", "0", "-", "0", "1", "/", "a">>
K2 == <<"2", "0", "1", "0", "-", "0", "2", "/", "a">>
K3 == <<"s", "/", "e">>
Keys == {K1, K2, K3}
PhotoKeys == {K1, K2}

CA == <<1>>
CB == <<2>>
Contents == {<<>>, CA, CB}

B1 == <<"b", "1">>
B2 == <<"b", "2">>
BucketNames == {B1, B2}

DownloadRoot == <<"d">>

\* The first year getPhotosToDownload samples (:269).
EpochYear == 2010

BucketToProcess(name, type) == [Name |-> name, Type |-> type]

\* A Config (types.go:5-11, with the MaxDownloadRetries the pipeline reads).
DefaultConfig ==
  [FileDownloadLocation |-> DownloadRoot,
   MaxDownloadRetries |-> 0,
   ServerBackupRules |-> [OldestFileMaxAgeInDays |-> 2, NewestFileMaxAgeInDays |-> 1],
   FilesToDownload |-> [ServerBackups |-> 1, EpisodesFromEachShow |-> 1,
                        PhotosFromThisMonth |-> 1, PhotosFromEachYear |-> 1],
   Buckets |-> <<BucketToProcess(B1, "photo")>>]

SeqUpTo(S, n) == UNION {[1..m -> S] : m \in 0..n}

BucketAndFiles(name, files) == [BucketName |-> name, Files |-> files]

Obj(name, created, content) ==
  [Name |-> name, Created |-> created, Content |-> content]

\* B1 holds two photos of different months with the same file name and a
\* plain file; B2 exists and is empty, so every key is missing from it.
K4 == <<"s", "/", "f">>

K5 == <<"t">>

K6 == <<"s", "/", "a", "a", "e">>

K7 == <<"a", "a", "e", "/", "e">>

K8 == <<"2", "0", "1", "1", "-", "0", "2", "/", "a">>

\* The keys in the order in which a listing returns them (by name).
KeyOrder == <<K1, K2, K8, K7, K6, K3, K4, K5>>

B3 == <<"b", "3">>

RemoteStore ==
  (B1 :> <<Obj(K1, 1, CA), Obj(K2, 2, CB), Obj(K3, 3, CA)>>) @@
  (B2 :> <<Obj(K5, 0, CA), Obj(K3, 30, CB)>>) @@
  (B3 :> <<Obj(K3, 4, CA), Obj(K4, 5, CB)>>)

(***************************************************************************)
(* The object store as the code reads it.                                  *)
(***************************************************************************)
NoAttrs == [Name |-> <<>>, Size |-> -1, CRC32C |-> -1, Created |-> -1, nil |-> TRUE]

\* hash/crc32 with the Castagnoli table, abstracted to a position-weighted
\* checksum: equal contents give equal sums, the empty content gives 0, and
\* contents of the universe that differ give different sums.  The sums of
\* the universe stay far below 2^32, so the uint32 never wraps.
RECURSIVE WeightedSum(_, _)
WeightedSum(bytes, i) ==
  IF i > Len(bytes) THEN 0 ELSE i * bytes[i] + WeightedSum(bytes, i + 1)

Crc32C(bytes) == WeightedSum(bytes, 1)

AttrsOf(o) ==
  [Name |-> o.Name, Size |-> Len(o.Content), CRC32C |-> Crc32C(o.Content),
   Created |-> o.Created, nil |-> FALSE]

BucketExists(rem, b) == b \in DOMAIN rem

\* bucket.Objects(ctx, nil): the objects in listing order, none for a bucket
\* that does not exist (the iterator then fails, see the callers).
ObjectsOf(rem, b) == IF BucketExists(rem, b) THEN rem[b] ELSE <<>>

HasObject(rem, b, key) ==
  \E i \in 1..Len(ObjectsOf(rem, b)) : ObjectsOf(rem, b)[i].Name = key

ObjectOf(rem, b, key) ==
  LET objs == ObjectsOf(rem, b)
  IN  objs[CHOOSE i \in 1..Len(objs) : objs[i].Name = key]

(***************************************************************************)
(* verifyDownloadedFile and getCrc32CFromFile.                             *)
(***************************************************************************)
\* getCrc32CFromFile: the checksum of the file's contents; 0 and an error
\* when the file cannot be opened or read.
GetCrc32CFromFile(filePath, fs, readFails) ==
  IF filePath \notin DOMAIN fs \/ readFails
  THEN [crc |-> 0, err |-> Err("Other", "crcRead")]
  ELSE [crc |-> Crc32C(fs[filePath]), err |-> Nil]

\* Mutant: the checksums are not compared.
VerifyDownloadedFileNoCrc(objAttrs, filePath, fs, readFails) ==
  IF objAttrs.nil THEN Err("NotValid", "attrs")
  ELSE IF filePath \notin DOMAIN fs THEN Err("NotFound", "stat")
  ELSE IF objAttrs.Size # Len(fs[filePath]) THEN Err("NotValid", "size")
  ELSE GetCrc32CFromFile(filePath, fs, readFails).err

VerifyDownloadedFile(objAttrs, filePath, fs, readFails) ==
  IF objAttrs.nil THEN Err("NotValid", "attrs")
  ELSE IF filePath \notin DOMAIN fs THEN Err("NotFound", "stat")
  ELSE IF objAttrs.Size # Len(fs[filePath]) THEN Err("NotValid", "size")
  ELSE LET local == GetCrc32CFromFile(filePath, fs, readFails)
       IN  IF objAttrs.CRC32C # local.crc THEN Err("NotValid", "crc")
           ELSE local.err

(***************************************************************************)
(* The extremum scans and validateServerBackups.                           *)
(***************************************************************************)
\* Listing result: the object kept so far (NoObj for none) and the error.
NoObj == [Name |-> <<>>, Created |-> 0, Content |-> <<>>, nil |-> TRUE]

Found(o) == [Name |-> o.Name, Created |-> o.Created, Content |-> o.Content, nil |-> FALSE]

\* Mutant: an object as old as the oldest so far replaces it.
RECURSIVE OldestFromLastTie(_, _, _)
OldestFromLastTie(objs, i, best) ==
  IF i > Len(objs) THEN best
  ELSE OldestFromLastTie(objs, i + 1,
                         IF best.nil \/ objs[i].Created <= best.Created
                         THEN Found(objs[i]) ELSE best)

\* The loop of getOldestObjectFromBucket (:391-404) from object i on.
RECURSIVE OldestFrom(_, _, _)
OldestFrom(objs, i, best) ==
  IF i > Len(objs) THEN best
  ELSE OldestFrom(objs, i + 1,
                  IF best.nil \/ objs[i].Created < best.Created
                  THEN Found(objs[i]) ELSE best)

\* The loop of getNewestObjectFromBucket (:372-385) from object i on.
RECURSIVE NewestFrom(_, _, _)
NewestFrom(objs, i, best) ==
  IF i > Len(objs) THEN best
  ELSE NewestFrom(objs, i + 1,
                  IF best.nil \/ objs[i].Created > best.Created
                  THEN Found(objs[i]) ELSE best)

\* A listing fails for a bucket that does not exist or when the transport
\* fails; the scan then returns the error.
GetOldestObjectFromBucket(rem, b, fails) ==
  IF fails \/ ~BucketExists(rem, b)
  THEN [obj |-> NoObj, err |-> WrapW(Err("Other", "list"))]
  ELSE [obj |-> OldestFrom(rem[b], 1, NoObj), err |-> Nil]

GetNewestObjectFromBucket(rem, b, fails) ==
  IF fails \/ ~BucketExists(rem, b)
  THEN [obj |-> NoObj, err |-> WrapW(Err("Other", "list"))]
  ELSE [obj |-> NewestFrom(rem[b], 1, NoObj), err |-> Nil]

\* time.Hour * 24 (:227), in hours.
HoursPerDay == 24

\* Go's integer division truncates toward zero.
TruncDiv(a, b) == IF a >= 0 THEN a \div b ELSE -((-a) \div b)

\* int(time.Since(created) / (time.Hour * 24)) (:226-227, :237-238).
AgeInDays(clock, created) == TruncDiv(clock.hours - created, HoursPerDay)

\* Mutant: the threshold itself still passes.
TooOldStrict(ageInDays, maxAgeInDays) == ageInDays > maxAgeInDays

\* The threshold test of :228 and :239.
TooOld(ageInDays, maxAgeInDays) == ageInDays >= maxAgeInDays

\* Mutant: a scan that found no object is not told from one that found one.
ValidateServerBackupsNoNilCheck(rem, b, rules, clock, failOldest, failNewest) ==
  LET oldest == GetOldestObjectFromBucket(rem, b, failOldest)
      newest == GetNewestObjectFromBucket(rem, b, failNewest)
  IN  IF oldest.err # Nil
      THEN Err("Other", "oldest")
      ELSE IF TooOld(AgeInDays(clock, oldest.obj.Created), rules.OldestFileMaxAgeInDays)
      THEN Err("NotValid", "oldest")
      ELSE IF newest.err # Nil
      THEN Err("Other", "newest")
      ELSE IF TooOld(AgeInDays(clock, newest.obj.Created), rules.NewestFileMaxAgeInDays)
      THEN Err("NotValid", "newest")
      ELSE Nil

ValidateServerBackups(rem, b, rules, clock, failOldest, failNewest) ==
  LET oldest == GetOldestObjectFromBucket(rem, b, failOldest)
      newest == GetNewestObjectFromBucket(rem, b, failNewest)
  IN  IF oldest.err # Nil \/ oldest.obj.nil
      THEN Err("Other", "oldest")
      ELSE IF TooOld(AgeInDays(clock, oldest.obj.Created), rules.OldestFileMaxAgeInDays)
      THEN Err("NotValid", "oldest")
      ELSE IF newest.err # Nil \/ newest.obj.nil
      THEN Err("Other", "newest")
      ELSE IF TooOld(AgeInDays(clock, newest.obj.Created), rules.NewestFileMaxAgeInDays)
      THEN Err("NotValid", "newest")
      ELSE Nil

(***************************************************************************)
(* Bucket names and types.                                                 *)
(***************************************************************************)
\* getBucketName: bucket.Attrs fails for a bucket that does not exist, or on
\* a failure of the transport.
GetBucketName(rem, b, fails) ==
  IF fails \/ ~BucketExists(rem, b)
  THEN [name |-> <<>>, err |-> WrapW(Err(IF fails THEN "Other" ELSE "NotFound", "bucketAttrs"))]
  ELSE [name |-> b, err |-> Nil]

\* Mutant: the last spec with the name gives the type.
RECURSIVE TypeFromLast(_, _, _)
TypeFromLast(name, configs, i) ==
  IF i > Len(configs) THEN [type |-> "", err |-> Err("NotFound", "type")]
  ELSE LET rest == TypeFromLast(name, configs, i + 1)
       IN  IF rest.err = Nil THEN rest
           ELSE IF name = configs[i].Name THEN [type |-> configs[i].Type, err |-> Nil]
           ELSE rest

\* The loop of getBucketValidationTypeFromNameAndConfig from spec i on.
RECURSIVE TypeFrom(_, _, _)
TypeFrom(name, configs, i) ==
  IF i > Len(configs) THEN [type |-> "", err |-> Err("NotFound", "type")]
  ELSE IF name = configs[i].Name THEN [type |-> configs[i].Type, err |-> Nil]
  ELSE TypeFrom(name, configs, i + 1)

GetBucketValidationTypeFromNameAndConfig(name, configs) == TypeFrom(name, configs, 1)

\* Mutant: a type without a validator passes.
ValidateBucketLenient(rem, b, cfg, clock, failName, failOldest, failNewest) ==
  LET got == GetBucketName(rem, b, failName)
      vt == GetBucketValidationTypeFromNameAndConfig(got.name, cfg.Buckets)
      sb == ValidateServerBackups(rem, b, cfg.ServerBackupRules, clock, failOldest, failNewest)
  IN  IF got.err # Nil THEN WrapW(got.err)
      ELSE IF vt.type = "server-backup"
      THEN (IF sb # Nil THEN WrapW(sb) ELSE Nil)
      ELSE vt.err

\* Mutant: media and photo buckets are validated like server backups.
ValidateBucketEveryType(rem, b, cfg, clock, failName, failOldest, failNewest) ==
  LET got == GetBucketName(rem, b, failName)
      vt == GetBucketValidationTypeFromNameAndConfig(got.name, cfg.Buckets)
      sb == ValidateServerBackups(rem, b, cfg.ServerBackupRules, clock, failOldest, failNewest)
  IN  IF got.err # Nil THEN WrapW(got.err)
      ELSE IF vt.type \in {"media", "photo", "server-backup"}
      THEN (IF sb # Nil THEN WrapW(sb) ELSE Nil)
      ELSE Err("NotFound", "validator")

\* validateBucket (:116-138).
ValidateBucket(rem, b, cfg, clock, failName, failOldest, failNewest) ==
  LET got == GetBucketName(rem, b, failName)
      vt == GetBucketValidationTypeFromNameAndConfig(got.name, cfg.Buckets)
      sb == ValidateServerBackups(rem, b, cfg.ServerBackupRules, clock, failOldest, failNewest)
  IN  IF got.err # Nil THEN WrapW(got.err)
      ELSE IF vt.type \in {"media", "photo"} THEN vt.err
      ELSE IF vt.type = "server-backup"
      THEN (IF sb # Nil THEN WrapW(sb) ELSE Nil)
      ELSE Err("NotFound", "validator")

(***************************************************************************)
(* Sampling.  A sampling function returns the set of results its random    *)
(* draws can give: files, error, and whether the process panicked.         *)
(***************************************************************************)
Sampled(files, err) == [files |-> files, err |-> err, crashed |-> FALSE]

Panicked == [files |-> <<>>, err |-> Nil, crashed |-> TRUE]

DigitChars == <<"0", "1", "2", "3", "4", "5", "6", "7", "8", "9">>

\* fmt.Sprintf("%d", n) for n >= 0.
RECURSIVE Itoa(_)
Itoa(n) ==
  IF n < 10 THEN <<DigitChars[n + 1]>>
  ELSE Itoa(n \div 10) \o <<DigitChars[(n % 10) + 1]>>

\* fmt.Sprintf("%02d", n) for n >= 0.
Itoa02(n) == IF n < 10 THEN <<"0">> \o Itoa(n) ELSE Itoa(n)

\* ".*[aA][aA][eE]" matches: the expression is not anchored.
BannedName(s) ==
  \E i \in 1..(Len(s) - 2) :
    s[i] \in {"a", "A"} /\ s[i + 1] \in {"a", "A"} /\ s[i + 2] \in {"e", "E"}

\* All sequences of k pairwise different elements of S.
Injections(S, k) ==
  {f \in [1..k -> S] : \A i, j \in 1..k : i # j => f[i] # f[j]}

\* Mutant: a selection already in the sample is taken again.
DrawWithRepeats(smp, selection) ==
  [slots |-> [smp.slots EXCEPT ![smp.i + 1] = selection], i |-> smp.i + 1]

\* One pass of the loop of getRandomSampleFromPopulation (:482-495) with
\* the selection rand.Int() % population gave: a selection that is among
\* the first i slots is drawn again, any other fills slot i.
Draw(smp, selection) ==
  IF \E j \in 1..smp.i : smp.slots[j] = selection THEN smp
  ELSE [slots |-> [smp.slots EXCEPT ![smp.i + 1] = selection], i |-> smp.i + 1]

\* getRandomSampleFromPopulation (:471-498): every sample the rejection
\* loop can end with.
GetRandomSampleFromPopulation(sampleSize, population) ==
  IF sampleSize > population \/ sampleSize <= 0 THEN {<<>>}
  ELSE Injections(0..(population - 1), sampleSize)

\* getRandomFilesFromBucket (:411-469).
GetRandomFilesFromBucket(rem, b, num, prefix, fails) ==
  IF num < 0 THEN {Sampled(<<>>, Err("NotValid", "num"))}
  ELSE IF num = 0 THEN {Sampled(<<>>, Nil)}
  ELSE IF fails \/ ~BucketExists(rem, b)
  THEN {Sampled(<<>>, WrapW(Err("Other", "list")))}
  ELSE
  LET Listed(o) == HasPrefix(o.Name, prefix)
      Kept(o) == ~BannedName(o.Name)
      objects == SelectSeq(SelectSeq(rem[b], Listed), Kept)
      population == Len(objects)
  IN  IF num > population THEN {Sampled(<<>>, Err("NotFound", "population"))}
      ELSE IF num = population
      THEN {Sampled([i \in 1..num |-> objects[i].Name], Nil)}
      ELSE {Sampled([i \in 1..num |-> objects[selections[i] + 1].Name], Nil) :
              selections \in GetRandomSampleFromPopulation(num, population)}

\* The prefix a delimiter listing reports for an object: its first path
\* segment with the slash, or nothing for an object of the top level.
RECURSIVE FirstSlash(_, _)
FirstSlash(s, i) ==
  IF i > Len(s) THEN 0 ELSE IF s[i] = "/" THEN i ELSE FirstSlash(s, i + 1)

TopPrefix(s) == SubSeq(s, 1, FirstSlash(s, 1))

\* The sequence without repeated elements, first occurrences kept.
RECURSIVE Distinct(_)
Distinct(seq) ==
  IF seq = <<>> THEN <<>>
  ELSE LET front == Distinct(SubSeq(seq, 1, Len(seq) - 1))
           last == seq[Len(seq)]
       IN  IF \E i \in 1..Len(front) : front[i] = last THEN front
           ELSE Append(front, last)

\* getBucketTopLevelDirs (:343-359): the Prefix field of every item of the
\* listing with Delimiter "/": the objects of the top level come first (their
\* Prefix is empty), then one item per directory.
GetBucketTopLevelDirs(rem, b, fails) ==
  IF fails \/ ~BucketExists(rem, b)
  THEN [dirs |-> <<>>, err |-> Err("Other", "list")]
  ELSE LET IsTop(o) == FirstSlash(o.Name, 1) = 0
           InDir(o) == FirstSlash(o.Name, 1) # 0
           tops == SelectSeq(rem[b], IsTop)
           inDirs == SelectSeq(rem[b], InDir)
       IN  [dirs |-> [i \in 1..Len(tops) |-> <<>>] \o
                     Distinct([i \in 1..Len(inDirs) |-> TopPrefix(inDirs[i].Name)]),
            err |-> Nil]

\* The loop of getMediaFilesToDownload (:254-261) from show i on.
RECURSIVE MediaFrom(_, _, _, _, _, _)
MediaFrom(rem, b, rules, shows, i, fails) ==
  IF i > Len(shows) THEN {Sampled(<<>>, Nil)}
  ELSE UNION {
         IF part.err # Nil THEN {Sampled(<<>>, WrapW(part.err))}
         ELSE {Sampled(part.files \o rest.files, rest.err) :
                 rest \in MediaFrom(rem, b, rules, shows, i + 1, fails)} :
         part \in GetRandomFilesFromBucket(rem, b, rules.EpisodesFromEachShow, shows[i], fails)}

\* getMediaFilesToDownload (:248-263).
GetMediaFilesToDownload(rem, b, rules, fails) ==
  LET top == GetBucketTopLevelDirs(rem, b, fails)
  IN  IF top.err # Nil THEN {Sampled(<<>>, WrapW(top.err))}
      ELSE MediaFrom(rem, b, rules, top.dirs, 1, fails)

\* The loop of getPhotosToDownload (:269-276) from year on; the photos
\* appended before a failure stay in the named result.
RECURSIVE PhotosFrom(_, _, _, _, _, _)
PhotosFrom(rem, b, rules, year, currYear, fails) ==
  IF year > currYear THEN {Sampled(<<>>, Nil)}
  ELSE UNION {
         IF part.err # Nil THEN {Sampled(<<>>, WrapW(part.err))}
         ELSE {Sampled(part.files \o rest.files, rest.err) :
                 rest \in PhotosFrom(rem, b, rules, year + 1, currYear, fails)} :
         part \in GetRandomFilesFromBucket(rem, b, rules.PhotosFromEachYear,
                                           Itoa(year) \o <<"-">>, fails)}

\* Mutant: the photos of the current month are not drawn.
GetPhotosWithoutMonth(rem, b, rules, clock, fails) ==
  PhotosFrom(rem, b, rules, EpochYear, clock.year, fails)

\* getPhotosToDownload (:265-288).
GetPhotosToDownload(rem, b, rules, clock, fails) ==
  UNION {
    IF years.err # Nil THEN {years}
    ELSE {IF month.err # Nil THEN Sampled(years.files, WrapW(month.err))
          ELSE Sampled(years.files \o month.files, Nil) :
            month \in GetRandomFilesFromBucket(rem, b, rules.PhotosFromThisMonth,
                        Itoa(clock.year) \o <<"-">> \o Itoa02(clock.month), fails)} :
    years \in PhotosFrom(rem, b, rules, EpochYear, clock.year, fails)}

\* Mutant: the older of the two objects keeps the slot.
RECURSIVE BubbleOldest(_, _, _)
BubbleOldest(files, obj, i) ==
  IF i > Len(files) THEN files
  ELSE IF files[i].nil THEN [files EXCEPT ![i] = obj]
  ELSE IF obj.Created < files[i].Created
  THEN BubbleOldest([files EXCEPT ![i] = obj], files[i], i + 1)
  ELSE BubbleOldest(files, obj, i + 1)

\* One pass of the inner loop of getServerBackupsToDownload (:308-317): the
\* object bubbles through the slots from slot i on.
RECURSIVE Bubble(_, _, _)
Bubble(files, obj, i) ==
  IF i > Len(files) THEN files
  ELSE IF files[i].nil THEN [files EXCEPT ![i] = obj]
  ELSE IF obj.Created > files[i].Created
  THEN Bubble([files EXCEPT ![i] = obj], files[i], i + 1)
  ELSE Bubble(files, obj, i + 1)

\* Mutant: the slots are filled in the order of the listing.
TopFromListed(objs, n, files) ==
  [i \in 1..Len(files) |-> IF i <= Len(objs) THEN Found(objs[i]) ELSE NoObj]

\* The outer loop of getServerBackupsToDownload (:296-318) from object n on.
RECURSIVE TopFrom(_, _, _)
TopFrom(objs, n, files) ==
  IF n > Len(objs) THEN files
  ELSE TopFrom(objs, n + 1, Bubble(files, Found(objs[n]), 1))

\* getServerBackupsToDownload (:290-331).  make panics for a negative
\* length, and files[rules.ServerBackups-1] for a length of 0.
GetServerBackupsToDownload(rem, b, rules, fails) ==
  IF rules.ServerBackups < 0 THEN {Panicked}
  ELSE IF fails \/ ~BucketExists(rem, b)
  THEN {Sampled(<<>>, WrapW(Err("Other", "list")))}
  ELSE LET files == TopFrom(rem[b], 1, [i \in 1..rules.ServerBackups |-> NoObj])
       IN  IF rules.ServerBackups = 0 THEN {Panicked}
           ELSE IF files[rules.ServerBackups].nil
           THEN {Sampled(<<>>, Err("NotFound", "topK"))}
           ELSE {Sampled([i \in 1..Len(files) |-> files[i].Name], Nil)}

\* getObjectsToDownloadFromBucket (:140-171).
GetObjectsToDownloadFromBucket(rem, b, cfg, clock, failName, fails) ==
  LET got == GetBucketName(rem, b, failName)
      vt == GetBucketValidationTypeFromNameAndConfig(got.name, cfg.Buckets)
      Wrapped(results, Wrap(_)) ==
        {IF r.err # Nil /\ ~r.crashed THEN Sampled(r.files, Wrap(r.err)) ELSE r : r \in results}
  IN  IF got.err # Nil THEN {Sampled(<<>>, WrapW(got.err))}
      ELSE IF vt.type = "media"
      THEN Wrapped(GetMediaFilesToDownload(rem, b, cfg.FilesToDownload, fails), WrapW)
      ELSE IF vt.type = "photo"
      THEN Wrapped(GetPhotosToDownload(rem, b, cfg.FilesToDownload, clock, fails), WrapW)
      ELSE IF vt.type = "server-backup"
      THEN Wrapped(GetServerBackupsToDownload(rem, b, cfg.FilesToDownload, fails), WrapV)
      ELSE {Sampled(<<>>, Err("NotFound", "sampler"))}

(***************************************************************************)
(* The resume file: the JSON text as a sequence of tokens.                 *)
(***************************************************************************)
Token(kind, chars) == [kind |-> kind, chars |-> chars]

Str(chars) == Token("string", chars)

Field(name) == Token("field", <<name>>)

Punct(mark) == Token("punct", <<mark>>)

\* json.Encoder on a string: a quote and a backslash are written behind a
\* backslash.
RECURSIVE EscapeString(_)
EscapeString(chars) ==
  IF chars = <<>> THEN <<>>
  ELSE (IF Head(chars) \in {"\"", "\\"} THEN <<"\\", Head(chars)>> ELSE <<Head(chars)>>)
         \o EscapeString(Tail(chars))

\* json.Decoder on a string: the character behind a backslash is taken as
\* it is.
RECURSIVE UnescapeString(_)
UnescapeString(chars) ==
  IF chars = <<>> THEN <<>>
  ELSE IF Head(chars) = "\\" /\ Len(chars) >= 2
  THEN <<chars[2]>> \o UnescapeString(SubSeq(chars, 3, Len(chars)))
  ELSE <<Head(chars)>> \o UnescapeString(Tail(chars))

\* json.Encoder on a []string: null for a nil slice.
EncodeFiles(files) ==
  IF files = <<>> THEN <<Punct("null")>>
  ELSE <<Punct("[")>> \o [i \in 1..Len(files) |-> Str(EscapeString(files[i]))]
         \o <<Punct("]")>>

EncodeEntry(e) ==
  <<Punct("{"), Field("bucket_name"), Str(EscapeString(e.BucketName)), Field("files")>>
    \o EncodeFiles(e.Files) \o <<Punct("}")>>

RECURSIVE EncodeEntries(_)
EncodeEntries(data) ==
  IF data = <<>> THEN <<>>
  ELSE EncodeEntry(Head(data)) \o EncodeEntries(Tail(data))

\* jsonEncoder.Encode(data) (:81-82): the value and a newline.
EncodeJSON(data) == <<Punct("[")>> \o EncodeEntries(data) \o <<Punct("]"), Punct("\n")>>

IsStr(tok) == tok.kind = "string"

Tok(text, i) == IF i <= Len(text) THEN text[i] ELSE Punct("EOF")

Parsed(ok, value, next) == [ok |-> ok, value |-> value, next |-> next]

\* The strings of a JSON array from token i on, up to its "]".
RECURSIVE ParseStrings(_, _, _)
ParseStrings(text, i, acc) ==
  IF Tok(text, i) = Punct("]") THEN Parsed(TRUE, acc, i + 1)
  ELSE IF IsStr(Tok(text, i)) THEN ParseStrings(text, i + 1, Append(acc, UnescapeString(text[i].chars)))
  ELSE Parsed(FALSE, <<>>, i)

\* Mutant: null is not accepted for a []string.
ParseFilesWithoutNull(text, i) ==
  IF Tok(text, i) = Punct("[") THEN ParseStrings(text, i + 1, <<>>)
  ELSE Parsed(FALSE, <<>>, i)

\* The value of the field files: null or an array of strings.
ParseFiles(text, i) ==
  IF Tok(text, i) = Punct("null") THEN Parsed(TRUE, <<>>, i + 1)
  ELSE IF Tok(text, i) = Punct("[") THEN ParseStrings(text, i + 1, <<>>)
  ELSE Parsed(FALSE, <<>>, i)

ParseEntry(text, i) ==
  IF /\ Tok(text, i) = Punct("{")
     /\ Tok(text, i + 1) = Field("bucket_name")
     /\ IsStr(Tok(text, i + 2))
     /\ Tok(text, i + 3) = Field("files")
  THEN LET files == ParseFiles(text, i + 4)
       IN  IF files.ok /\ Tok(text, files.next) = Punct("}")
           THEN Parsed(TRUE, BucketAndFiles(UnescapeString(text[i + 2].chars), files.value),
                       files.next + 1)
           ELSE Parsed(FALSE, <<>>, i)
  ELSE Parsed(FALSE, <<>>, i)

RECURSIVE ParseEntries(_, _, _)
ParseEntries(text, i, acc) ==
  IF Tok(text, i) = Punct("]") THEN Parsed(TRUE, acc, i + 1)
  ELSE LET e == ParseEntry(text, i)
       IN  IF e.ok THEN ParseEntries(text, e.next, Append(acc, e.value))
           ELSE Parsed(FALSE, <<>>, i)

\* jsonParser.Decode(&data) (:98-99): the first JSON value of the text.
DecodeJSON(text) ==
  IF Tok(text, 1) = Punct("[") THEN ParseEntries(text, 2, <<>>)
  ELSE Parsed(FALSE, <<>>, 1)

\* saveInProgressFile (:69-84).  fault names the step that fails; written is
\* how many tokens of the text reach the file.
SaveFaults == {"none", "create", "write", "close"}

SaveInProgressFile(file, data, fault, written) ==
  LET text == EncodeJSON(data)
  IN  IF fault = "create" THEN [file |-> file, err |-> Err("Other", "create")]
      ELSE IF fault = "write"
      THEN [file |-> [exists |-> TRUE, text |-> SubSeq(text, 1, written)],
            err |-> Err("Other", "write")]
      ELSE [file |-> [exists |-> TRUE, text |-> text],
            err |-> IF fault = "close" THEN JoinClose(Nil) ELSE Nil]

\* loadInProgressFile (:86-101).
LoadFaults == {"none", "open", "close"}

LoadInProgressFile(file, fault) ==
  IF fault = "open" \/ ~file.exists
  THEN [data |-> <<>>, err |-> Err("Other", "open")]
  ELSE LET got == DecodeJSON(file.text)
       IN  IF ~got.ok THEN [data |-> <<>>, err |-> Err("Other", "decode")]
           ELSE [data |-> got.value,
                 err |-> IF fault = "close" THEN JoinClose(Nil) ELSE Nil]

(***************************************************************************)
(* The local destination of a key (downloadFilesFromBucket, :179-189).     *)
(***************************************************************************)
\* "([0-9][0-9][0-9][0-9])-[0-9][0-9]/(.*)" matches at position i.
PhotoMatchAt(s, i) ==
  /\ i + 7 <= Len(s)
  /\ \A j \in {i, i + 1, i + 2, i + 3, i + 5, i + 6} : s[j] \in Digits
  /\ s[i + 4] = "-"
  /\ s[i + 7] = "/"

\* regexp.MatchString: the expression is not anchored.
PhotoMatches(s) == \E i \in 1..Len(s) : PhotoMatchAt(s, i)

\* regexp.FindStringSubmatch: the groups of the leftmost match.
PhotoParts(s) ==
  LET i == CHOOSE m \in 1..Len(s) :
             PhotoMatchAt(s, m) /\ \A n \in 1..(m - 1) : ~PhotoMatchAt(s, n)
  IN  <<SubSeq(s, i, i + 3), SubSeq(s, i + 8, Len(s))>>

LocalDest(root, bname, remoteFile) ==
  IF PhotoMatches(remoteFile)
  THEN JoinPath(<<root, bname, PhotoParts(remoteFile)[1], PhotoParts(remoteFile)[2]>>)
  ELSE JoinPath(<<root, bname, remoteFile>>)

(***************************************************************************)
(* downloadFile.  fault names the step of this attempt that meets a        *)
(* failure of its environment, written is what io.Copy leaves in the local *)
(* file when the fault is in the copy.                                     *)
(***************************************************************************)
\* "reader" and "readerPanic" are the two ways a failed obj.NewReader can end:
\* the deferred rc.Close() is called on the nil reader the failure returns,
\* which either comes back or dereferences nil and ends the process.
Faults == {"none", "attrs", "reader", "readerPanic", "mkdir", "create", "copy",
           "corrupt", "crc", "close"}

\* What the copy can leave behind: a strict prefix when the stream breaks,
\* other bytes of the same length when they were damaged on the way.
Written(fault, content) ==
  IF fault = "copy" THEN {SubSeq(content, 1, n) : n \in 0..(Len(content) - 1)}
  ELSE IF fault = "corrupt"
  THEN {c \in Contents : Len(c) = Len(content) /\ c # content}
  ELSE {content}

Outcome(err, fs, opened, crashed) ==
  [err |-> err, fs |-> fs, opened |-> opened, crashed |-> crashed]

\* Mutant: a file that is already there and valid is downloaded again.
DownloadFileNoSkip(rem, b, remoteFilePath, localFilePath, fs, fault, written) ==
  IF fault = "attrs" \/ ~HasObject(rem, b, remoteFilePath)
  THEN Outcome(Err("NotFound", "attrs"), fs, FALSE, FALSE)
  ELSE
  LET attrs == AttrsOf(ObjectOf(rem, b, remoteFilePath))
      fsNew == (localFilePath :> written) @@ fs
      final == VerifyDownloadedFile(attrs, localFilePath, fsNew, fault = "crc")
  IN  IF fault \in {"reader", "readerPanic"}
      THEN Outcome(Err("NotFound", "reader"), fs, TRUE, fault = "readerPanic")
      ELSE IF fault \in {"mkdir", "create"}
      THEN Outcome(Err("Other", fault), fs, TRUE, FALSE)
      ELSE IF fault = "copy"
      THEN Outcome(Err("Other", "copy"), fsNew, TRUE, FALSE)
      ELSE IF fault = "close"
      THEN Outcome(JoinClose(final), fsNew, TRUE, FALSE)
      ELSE Outcome(final, fsNew, TRUE, FALSE)

\* Mutant: the file just written is not verified.
DownloadFileUnverified(rem, b, remoteFilePath, localFilePath, fs, fault, written) ==
  IF fault = "attrs" \/ ~HasObject(rem, b, remoteFilePath)
  THEN Outcome(Err("NotFound", "attrs"), fs, FALSE, FALSE)
  ELSE
  LET attrs == AttrsOf(ObjectOf(rem, b, remoteFilePath))
      fsNew == (localFilePath :> written) @@ fs
  IN  IF VerifyDownloadedFile(attrs, localFilePath, fs, fault = "crc") = Nil
      THEN Outcome(Err("AlreadyExists", "verify"), fs, FALSE, FALSE)
      ELSE IF fault \in {"reader", "readerPanic"}
      THEN Outcome(Err("NotFound", "reader"), fs, TRUE, fault = "readerPanic")
      ELSE IF fault \in {"mkdir", "create"}
      THEN Outcome(Err("Other", fault), fs, TRUE, FALSE)
      ELSE IF fault = "copy"
      THEN Outcome(Err("Other", "copy"), fsNew, TRUE, FALSE)
      ELSE IF fault = "close"
      THEN Outcome(JoinClose(Nil), fsNew, TRUE, FALSE)
      ELSE Outcome(Nil, fsNew, TRUE, FALSE)

\* downloadFile (:500-555).
DownloadFile(rem, b, remoteFilePath, localFilePath, fs, fault, written) ==
  IF fault = "attrs" \/ ~HasObject(rem, b, remoteFilePath)
  THEN Outcome(Err("NotFound", "attrs"), fs, FALSE, FALSE)
  ELSE
  LET attrs == AttrsOf(ObjectOf(rem, b, remoteFilePath))
      crcFails == fault = "crc"
      fsNew == (localFilePath :> written) @@ fs
      final == VerifyDownloadedFile(attrs, localFilePath, fsNew, crcFails)
  IN  IF VerifyDownloadedFile(attrs, localFilePath, fs, crcFails) = Nil
      THEN Outcome(Err("AlreadyExists", "verify"), fs, FALSE, FALSE)
      ELSE IF fault \in {"reader", "readerPanic"}
      THEN Outcome(Err("NotFound", "reader"), fs, TRUE, fault = "readerPanic")
      ELSE IF fault = "mkdir"
      THEN Outcome(Err("Other", "mkdir"), fs, TRUE, FALSE)
      ELSE IF fault = "create"
      THEN Outcome(Err("Other", "create"), fs, TRUE, FALSE)
      ELSE IF fault = "copy"
      THEN Outcome(Err("Other", "copy"), fsNew, TRUE, FALSE)
      ELSE IF fault = "close"
      THEN Outcome(JoinClose(final), fsNew, TRUE, FALSE)
      ELSE Outcome(final, fsNew, TRUE, FALSE)

(***************************************************************************)
(* The download pipeline: downloadFilesFromBucketAndFiles and              *)
(* downloadFilesFromBucket, one action per step of their loops.            *)
(***************************************************************************)
EmptyFS == [p \in {} |-> <<>>]

NoHist ==
  [pos |-> <<0, 0>>,    \* the bucket and file index of the last downloadFile
   attempts |-> 0,      \* calls of downloadFile for that key
   opened |-> FALSE,    \* the last downloadFile called obj.NewReader
   anyOpen |-> FALSE,   \* some downloadFile of this call did
   lastErr |-> Nil,     \* what the last downloadFile returned
   clean |-> TRUE,      \* no step of this call met a failure of its environment
   prevOK |-> FALSE,    \* the call before this one returned nil
   done |-> {},         \* the positions whose key the retry loop has left with success
   sampled |-> 0,       \* sampling phases entered by this run of main
   existed |-> "unchecked", \* what the resume file was when main checked for it
   fileAtCheck |-> [exists |-> FALSE, text |-> <<>>],
   passed |-> 0,        \* buckets validateBucket has passed in this run
   failed |-> FALSE,    \* some step of this run ended in an error that is not retried
   trace |-> <<>>]      \* the buckets and keys worked on, in the order of the work

\* One piece of work: a bucket validated or sampled, a bucket entered by the
\* pipeline (f = 0), or a key given to downloadFile.
Event(phase, b, f) == [phase |-> phase, b |-> b, f |-> f]

\* The trace with the event added, unless it is the event it ends with (a
\* retry).
Logged(trace, e) ==
  IF trace # <<>> /\ trace[Len(trace)] = e THEN trace ELSE Append(trace, e)

\* retryCount++ (:209) on an int: the largest value is followed by the
\* smallest.
Inc(n) == IF n >= MaxInt THEN -MaxInt - 1 ELSE n + 1

\* Mutant: the retry counter is compared with >= instead of >.
AttemptResultOffByOne(err2, retries, max) ==
  IF err2 = Nil THEN "next"
  ELSE IF err2.kind = "AlreadyExists" THEN "next"
  ELSE IF err2.kind = "NotFound" THEN "fail"
  ELSE IF retries + 1 >= max THEN "fail"
  ELSE "retry"

\* Mutant: NotFound is retried like any other error.
AttemptResultRetriesNotFound(err2, retries, max) ==
  IF err2 = Nil THEN "next"
  ELSE IF err2.kind = "AlreadyExists" THEN "next"
  ELSE IF retries + 1 > max THEN "fail"
  ELSE "retry"

\* What the retry loop does with the result of one downloadFile (:195-214).
AttemptResult(err2, retries, max) ==
  IF err2 = Nil THEN "next"
  ELSE IF err2.kind = "AlreadyExists" THEN "next"
  ELSE IF err2.kind = "NotFound" THEN "fail"
  ELSE IF Inc(retries) > max THEN "fail"
  ELSE "retry"

\* The passes of the retry loop are counted up to one more than the int
\* holds.
Counted(n) == IF n > MaxInt + 1 THEN MaxInt + 1 ELSE n

CurFiles == mapping[bi].Files

CurKey == CurFiles[fi]

CurDest == LocalDest(config.FileDownloadLocation, bucketName, CurKey)

\* :105-108 and :174-179: the next bucket of the mapping is entered.
DownloadFilesFromBucketBegin ==
  /\ pc = "dlBucket"
  /\ bi <= Len(mapping)
  /\ \E fails \in BOOLEAN :
       LET got == GetBucketName(remote, mapping[bi].BucketName, fails)
       IN  /\ bucketName' = got.name
           /\ nameErr' = (IF got.err = Nil THEN Nil ELSE WrapW(got.err))
           /\ hist' = [hist EXCEPT !.clean = hist.clean /\ ~fails,
                                   !.failed = hist.failed \/ got.err # Nil,
                                   !.trace = Logged(hist.trace, Event("download", bi, 0))]
  /\ fi' = 1
  /\ retryCount' = 0
  /\ pc' = "dlFile"
  /\ UNCHANGED <<envVars, mainVars, fnVars, localFiles, mapping, bi, dlErr, calls>>

\* :180-215: one pass of the retry loop for the current key.
DownloadAttempt ==
  /\ pc = "dlFile"
  /\ fi <= Len(CurFiles)
  /\ \E fault \in Faults :
     LET b == mapping[bi].BucketName
         content == IF HasObject(remote, b, CurKey)
                    THEN ObjectOf(remote, b, CurKey).Content ELSE <<>>
     IN  \E written \in Written(fault, content) :
         \E out \in {DownloadFile(remote, b, CurKey, CurDest, localFiles, fault, written)} :
         \E res \in {AttemptResult(out.err, retryCount, maxRetries)} :
             /\ localFiles' = out.fs
             /\ hist' = [hist EXCEPT !.pos = <<bi, fi>>,
                                     !.attempts = IF hist.pos = <<bi, fi>>
                                                  THEN Counted(hist.attempts + 1)
                                                  ELSE 1,
                                     !.opened = out.opened,
                                     !.anyOpen = hist.anyOpen \/ out.opened,
                                     !.lastErr = out.err,
                                     !.clean = hist.clean /\ fault = "none",
                                     !.done = IF ~out.crashed /\ res = "next"
                                              THEN hist.done \cup {<<bi, fi>>}
                                              ELSE hist.done,
                                     !.failed = hist.failed \/ out.crashed \/ res = "fail",
                                     !.trace = Logged(hist.trace, Event("download", bi, fi))]
             /\ IF out.crashed
                THEN /\ pc' = "crashed"
                     /\ UNCHANGED <<fi, retryCount, dlErr>>
                ELSE IF res = "next"
                THEN /\ fi' = fi + 1
                     /\ retryCount' = 0
                     /\ UNCHANGED <<pc, dlErr>>
                ELSE IF res = "fail"
                THEN /\ dlErr' = WrapW(WrapW(out.err))
                     /\ retryCount' = (IF out.err.kind = "NotFound"
                                       THEN retryCount ELSE Inc(retryCount))
                     /\ pc' = "dlReturned"
                     /\ UNCHANGED fi
                ELSE /\ retryCount' = Inc(retryCount)
                     /\ UNCHANGED <<pc, fi, dlErr>>
  /\ UNCHANGED <<envVars, mainVars, fnVars, mapping, bi, bucketName, nameErr, calls>>

\* :217 and :109-112: the files of the bucket are done; the error left by
\* getBucketName is what downloadFilesFromBucket returns.
DownloadFilesFromBucketEnd ==
  /\ pc = "dlFile"
  /\ fi > Len(CurFiles)
  /\ IF nameErr # Nil
     THEN /\ dlErr' = WrapW(nameErr)
          /\ pc' = "dlReturned"
          /\ UNCHANGED bi
     ELSE /\ bi' = bi + 1
          /\ pc' = "dlBucket"
          /\ UNCHANGED dlErr
  /\ UNCHANGED <<envVars, mainVars, fnVars, localFiles, mapping, fi,
                 retryCount, bucketName, nameErr, calls, hist>>

\* Mutant: the pipeline empties the resume file when it is through.
DownloadReturnTruncating ==
  /\ pc = "dlBucket"
  /\ bi > Len(mapping)
  /\ dlErr' = Nil
  /\ pc' = "dlReturned"
  /\ inProgressFile' = [inProgressFile EXCEPT !.text = <<>>]
  /\ UNCHANGED <<envVars, bucketToFilesMapping, fnVars, localFiles, mapping, bi, fi,
                 retryCount, bucketName, nameErr, calls, hist>>

\* :113: every bucket of the mapping is done.
DownloadReturn ==
  /\ pc = "dlBucket"
  /\ bi > Len(mapping)
  /\ dlErr' = Nil
  /\ pc' = "dlReturned"
  /\ UNCHANGED <<envVars, mainVars, fnVars, localFiles, mapping, bi, fi,
                 retryCount, bucketName, nameErr, calls, hist>>

\* The pipeline is called again with the same mapping and destination
\* directory (TestDownloadFilesFromBucket, a rerun after a failure).
CallAgain ==
  /\ pc \in {"dlReturned", "crashed"}
  /\ calls < MaxCalls
  /\ calls' = calls + 1
  /\ pc' = "dlBucket"
  /\ bi' = 1
  /\ fi' = 1
  /\ retryCount' = 0
  /\ bucketName' = <<>>
  /\ nameErr' = Nil
  /\ dlErr' = Nil
  /\ hist' = [NoHist EXCEPT !.prevOK = (pc = "dlReturned" /\ dlErr = Nil)]
  /\ UNCHANGED <<envVars, mainVars, fnVars, localFiles, mapping>>

Mappings == SeqUpTo({BucketAndFiles(b, f) : b \in BucketNames, f \in SeqUpTo(PhotoKeys, MaxFiles)},
                    MaxBuckets)

\* The parts of the state a specification does not use.
NoCall == [fn |-> "none"]

\* The loop of getRandomSampleFromPopulation before it is entered.
NoSample == [slots |-> <<>>, i |-> 0]

NoFile == [exists |-> FALSE, text |-> <<>>]

Clock(hours, year, month) == [hours |-> hours, year |-> year, month |-> month]

InitDownload ==
  /\ pc = "dlBucket"
  /\ remote = RemoteStore
  /\ now = Clock(0, EpochYear, 1)
  /\ \E r \in 0..MaxRetriesBound : config = [DefaultConfig EXCEPT !.MaxDownloadRetries = r]
  /\ localFiles = EmptyFS
  /\ inProgressFile = NoFile
  /\ bucketToFilesMapping = <<>>
  /\ call = NoCall
  /\ ret = Nil
  /\ sample = NoSample
  /\ mapping \in Mappings
  /\ bi = 1
  /\ fi = 1
  /\ retryCount = 0
  /\ bucketName = <<>>
  /\ nameErr = Nil
  /\ dlErr = Nil
  /\ calls = 1
  /\ hist = NoHist

NextDownload ==
  \/ DownloadFilesFromBucketBegin
  \/ DownloadAttempt
  \/ DownloadFilesFromBucketEnd
  \/ DownloadReturn
  \/ CallAgain

SpecDownload == InitDownload /\ [][NextDownload]_vars

(***************************************************************************)
(* Properties of the download pipeline (SpecDownload).                     *)
(***************************************************************************)
Returned == pc = "dlReturned"

Succeeded == Returned /\ dlErr = Nil

\* The object of the key the pipeline stands at exists remotely.
CurObjectExists == HasObject(remote, mapping[bi].BucketName, CurKey)

AtKey == pc \in {"dlFile", "dlReturned", "crashed"} /\ bi <= Len(mapping)
         /\ fi <= Len(CurFiles)

\* The local file at path has the size and the CRC32C of the remote object.
MatchesRemote(fs, path, b, key) ==
  /\ HasObject(remote, b, key)
  /\ path \in DOMAIN fs
  /\ Len(fs[path]) = AttrsOf(ObjectOf(remote, b, key)).Size
  /\ Crc32C(fs[path]) = AttrsOf(ObjectOf(remote, b, key)).CRC32C

\* C1: when downloadFilesFromBucketAndFiles returns success, the local
\* destination of every key of every bucket of the mapping exists and has
\* the size and the CRC32C of that key's remote object.
C1_SuccessMeansAllVerified ==
  Succeeded =>
    \A i \in 1..Len(mapping) : \A j \in 1..Len(mapping[i].Files) :
      MatchesRemote(localFiles,
                    LocalDest(DownloadRoot, mapping[i].BucketName, mapping[i].Files[j]),
                    mapping[i].BucketName, mapping[i].Files[j])

\* C4: in a call of the pipeline that follows a successful call on the same
\* mapping and directory, and in which no step meets a failure of its
\* environment, no remote byte stream is opened and the call ends in
\* success.
C4_SecondCallOpensNothing ==
  (hist.prevOK /\ hist.clean) =>
    /\ ~hist.anyOpen
    /\ pc # "crashed"
    /\ Returned => dlErr = Nil

\* C5: downloadFile is invoked at most maxDownloadRetries + 1 times for a
\* key, and the pipeline fails on a retryable error exactly when the retry
\* counter has passed maxDownloadRetries, with the last error.
C5_AttemptsBounded ==
  /\ hist.attempts <= maxRetries + 1
  /\ retryCount <= maxRetries + 1
  /\ (Returned /\ dlErr # Nil /\ dlErr.kind # "NotFound" /\ dlErr.site # "bucketAttrs")
       => /\ hist.attempts = maxRetries + 1
          /\ retryCount = maxRetries + 1
          /\ dlErr = hist.lastErr

C5_Witness ==
  /\ Returned
  /\ dlErr.kind = "Other"
  /\ maxRetries = MaxRetriesBound
  /\ hist.attempts = MaxRetriesBound + 1

\* C6: the attempt for a key whose object does not exist remotely is the
\* only one for that key: it fails the pipeline with NotFound, leaves the
\* retry counter alone, and nothing is attempted after it in this call.
C6_MissingObjectFailsFast ==
  [][ /\ (pc = "dlFile" /\ fi <= Len(CurFiles) /\ ~CurObjectExists)
          => ( /\ pc' = "dlReturned"
               /\ dlErr'.kind = "NotFound"
               /\ retryCount' = 0
               /\ retryCount = 0
               /\ hist'.attempts = 1
               /\ localFiles' = localFiles
               /\ <<bi', fi'>> = <<bi, fi>> )
      /\ (Returned /\ dlErr # Nil) => (calls' = calls + 1 /\ pc' = "dlBucket")
    ]_vars

C6_Witness ==
  /\ Returned
  /\ AtKey
  /\ ~CurObjectExists
  /\ dlErr.kind = "NotFound"
  /\ hist.attempts = 1
  /\ nameErr = Nil
  /\ maxRetries > 0
  /\ fi < Len(CurFiles)
  /\ bi < Len(mapping)

\* C7: a transient failure of the metadata fetch or of opening the byte
\* stream, for an object that exists, is retried: the pipeline fails (or
\* stops) on it only when the attempts of the key are used up.
C7_TransientIsRetried ==
  (/\ pc \in {"dlReturned", "crashed"}
   /\ AtKey
   /\ CurObjectExists
   /\ hist.pos = <<bi, fi>>
   /\ hist.lastErr.site \in {"attrs", "reader"}
   /\ pc = "dlReturned" => dlErr = hist.lastErr)
    => hist.attempts = maxRetries + 1

\* C8: when the local file at the key's destination has the size and the
\* CRC32C of the remote object, an attempt that reads both returns
\* AlreadyExists, opens no reader, leaves the local files as they are, and
\* the pipeline goes on with the next key.
C8_AlreadyExistsSkips ==
  [][(/\ pc = "dlFile"
      /\ fi <= Len(CurFiles)
      /\ MatchesRemote(localFiles, CurDest, mapping[bi].BucketName, CurKey))
       => \/ /\ hist'.lastErr.kind = "AlreadyExists"
             /\ ~hist'.opened
             /\ localFiles' = localFiles
             /\ pc' = "dlFile"
             /\ <<bi', fi'>> = <<bi, fi + 1>>
             /\ dlErr' = dlErr
          \/ /\ ~hist'.clean
             /\ hist'.lastErr.kind # "AlreadyExists"]_vars

C8_Witness ==
  /\ pc = "dlFile"
  /\ hist.lastErr.kind = "AlreadyExists"
  /\ hist.pos = <<bi, fi - 1>>
  /\ ~hist.opened
  /\ hist.clean
  /\ fi <= Len(CurFiles)

\* The file at the path has the size and the checksum of the remote object
\* of the key.
SizeAndCrcMatch(fs, path, b, key) ==
  /\ path \in DOMAIN fs
  /\ Len(fs[path]) = Len(ObjectOf(remote, b, key).Content)
  /\ Crc32C(fs[path]) = Crc32C(ObjectOf(remote, b, key).Content)

\* C28: when a call of downloadFile returns nil or AlreadyExists, the local
\* file at its destination has the size and the CRC32C of the remote object
\* as that call read them; AlreadyExists leaves the file as it was, and a
\* file that does not match (left truncated or damaged by an earlier
\* attempt) is never answered with AlreadyExists: the attempt opens the
\* remote object and writes the file anew.
C28_SuccessMeansFileMatches ==
  [][(pc = "dlFile" /\ fi <= Len(CurFiles)) =>
       LET b == mapping[bi].BucketName
       IN  /\ hist'.lastErr = Nil =>
                hist'.opened /\ SizeAndCrcMatch(localFiles', CurDest, b, CurKey)
           /\ hist'.lastErr.kind = "AlreadyExists" =>
                /\ localFiles' = localFiles
                /\ SizeAndCrcMatch(localFiles, CurDest, b, CurKey)
           /\ (CurObjectExists /\ ~SizeAndCrcMatch(localFiles, CurDest, b, CurKey)) =>
                hist'.lastErr.kind # "AlreadyExists"]_vars

\* An attempt has left a file that does not match the remote object at the
\* destination and was rejected as NotValid; the key is tried again.
C28_Witness ==
  /\ pc = "dlFile"
  /\ fi <= Len(CurFiles)
  /\ retryCount = 1
  /\ hist.pos = <<bi, fi>>
  /\ hist.lastErr.kind = "NotValid"
  /\ CurDest \in DOMAIN localFiles
  /\ ~SizeAndCrcMatch(localFiles, CurDest, mapping[bi].BucketName, CurKey)

\* C34: within the file list of one bucket two different keys never have
\* the same local destination, so no download of a run overwrites the file
\* of an earlier key of the run.
C34_DestInjective ==
  (pc = "dlFile" /\ bi <= Len(mapping)) =>
     \A i, j \in 1..Len(CurFiles) :
        CurFiles[i] # CurFiles[j] =>
          LocalDest(config.FileDownloadLocation, bucketName, CurFiles[i])
            # LocalDest(config.FileDownloadLocation, bucketName, CurFiles[j])

\* C35: when getBucketName has failed for a bucket, downloadFilesFromBucket
\* calls downloadFile for none of its keys and creates no local file; every
\* file the pipeline writes lies under {downloadRoot}/{name of the bucket}/.
C35_NoDownloadWithoutName ==
  [][pc = "dlFile" =>
       /\ nameErr # Nil =>
            /\ hist'.pos = hist.pos
            /\ hist'.attempts = hist.attempts
            /\ localFiles' = localFiles
       /\ \A p \in DOMAIN localFiles' :
            (p \notin DOMAIN localFiles \/ localFiles'[p] # localFiles[p]) =>
              HasPrefix(p, JoinPath(<<config.FileDownloadLocation,
                                      mapping[bi].BucketName>>) \o <<"/">>)]_vars

\* C29: when the verification of the file an attempt has just written fails
\* with NotValid, downloadFilesFromBucket makes no further attempt for the
\* key and returns that error, still of the kind NotValid.
C29_NotValidIsNotRetried ==
  [][(pc = "dlFile" /\ fi <= Len(CurFiles) /\ hist'.lastErr.kind = "NotValid") =>
       /\ pc' = "dlReturned"
       /\ dlErr'.kind = "NotValid"]_vars

(***************************************************************************)
(* verifyDownloadedFile called on its own (SpecVerify).                    *)
(***************************************************************************)
VerifyPath == <<"d", "/", "f">>

FileContents == SeqUpTo(0..MaxByte, MaxLen)

CrcValues == {Crc32C(c) : c \in FileContents}

Descriptors ==
  {NoAttrs} \cup
  {[Name |-> K3, Size |-> sz, CRC32C |-> crc, Created |-> 0, nil |-> FALSE] :
     sz \in 0..MaxLen, crc \in CrcValues}

InitVerify ==
  /\ pc = "call"
  /\ remote = RemoteStore
  /\ now = Clock(0, EpochYear, 1)
  /\ config = DefaultConfig
  /\ localFiles \in {EmptyFS} \cup {(VerifyPath :> c) @@ EmptyFS : c \in FileContents}
  /\ inProgressFile = NoFile
  /\ bucketToFilesMapping = <<>>
  /\ mapping = <<>>
  /\ bi = 1
  /\ fi = 1
  /\ retryCount = 0
  /\ bucketName = <<>>
  /\ nameErr = Nil
  /\ dlErr = Nil
  /\ calls = 1
  /\ call \in {[fn |-> "verifyDownloadedFile", objAttrs |-> a, filePath |-> VerifyPath,
                readFails |-> r] : a \in Descriptors, r \in BOOLEAN}
  /\ ret = Nil
  /\ sample = NoSample
  /\ hist = NoHist

CallVerifyDownloadedFile ==
  /\ pc = "call"
  /\ call.fn = "verifyDownloadedFile"
  /\ ret' = VerifyDownloadedFile(call.objAttrs, call.filePath, localFiles, call.readFails)
  /\ pc' = "returned"
  /\ UNCHANGED <<envVars, mainVars, localFiles, mapping, bi, fi, retryCount,
                 bucketName, nameErr, dlErr, calls, call, sample, hist>>

NextVerify == CallVerifyDownloadedFile

SpecVerify == InitVerify /\ [][NextVerify]_vars

\* C9: verifyDownloadedFile fails with NotValid for an absent descriptor,
\* else NotFound for a missing local file, else NotValid for a size
\* difference, else NotValid for a checksum difference, and otherwise
\* succeeds when the file can be read; it never succeeds unless all four
\* checks pass.
C9_VerifyContract ==
  (pc = "returned" /\ call.fn = "verifyDownloadedFile") =>
    LET a == call.objAttrs
        there == call.filePath \in DOMAIN localFiles
        file == localFiles[call.filePath]
        expected ==
          IF a.nil THEN Err("NotValid", "attrs")
          ELSE IF ~there THEN Err("NotFound", "stat")
          ELSE IF Len(file) # a.Size THEN Err("NotValid", "size")
          ELSE IF Crc32C(file) # a.CRC32C THEN Err("NotValid", "crc")
          ELSE Nil
    IN  /\ ~call.readFails => ret = expected
        /\ ret = Nil => (~a.nil /\ there /\ expected = Nil)
        /\ expected # Nil => ret # Nil

C9_Witness ==
  /\ pc = "returned"
  /\ call.fn = "verifyDownloadedFile"
  /\ ~call.readFails
  /\ ret = Err("NotValid", "crc")
  /\ call.filePath \in DOMAIN localFiles
  /\ Len(localFiles[call.filePath]) = call.objAttrs.Size
  /\ Len(localFiles[call.filePath]) > 0

(***************************************************************************)
(* validateServerBackups called on its own (SpecValidate).  The clock      *)
(* reads hour 0; an object of age a hours was created at hour -a.          *)
(***************************************************************************)
AgeChoices == {d * HoursPerDay + h : d \in (-1)..MaxAgeDays, h \in {0, HoursPerDay - 1}}

\* Buckets of up to MaxObjects objects, in every listing order.
IndexNames == <<"1", "2", "3", "4", "5", "6", "7", "8", "9">>

AgedBuckets ==
  {[i \in 1..Len(ages) |-> Obj(<<"o", IndexNames[i]>>, -ages[i], CA)] :
     ages \in SeqUpTo(AgeChoices, MaxObjects)}

Rules ==
  [OldestFileMaxAgeInDays : 0..MaxThreshold, NewestFileMaxAgeInDays : 0..MaxThreshold]

InitValidate ==
  /\ pc = "call"
  /\ \E objs \in AgedBuckets : remote = (B1 :> objs)
  /\ now = Clock(0, EpochYear, 1)
  /\ \E r \in Rules : config = [DefaultConfig EXCEPT !.ServerBackupRules = r]
  /\ localFiles = EmptyFS
  /\ inProgressFile = NoFile
  /\ bucketToFilesMapping = <<>>
  /\ mapping = <<>>
  /\ bi = 1
  /\ fi = 1
  /\ retryCount = 0
  /\ bucketName = <<>>
  /\ nameErr = Nil
  /\ dlErr = Nil
  /\ calls = 1
  /\ call \in {[fn |-> "validateServerBackups", bucket |-> B1, failOldest |-> fo,
                failNewest |-> fn] : fo \in BOOLEAN, fn \in BOOLEAN}
  /\ ret = Nil
  /\ sample = NoSample
  /\ hist = NoHist

CallValidateServerBackups ==
  /\ pc = "call"
  /\ call.fn = "validateServerBackups"
  /\ ret' = ValidateServerBackups(remote, call.bucket, config.ServerBackupRules, now,
                                  call.failOldest, call.failNewest)
  /\ pc' = "returned"
  /\ UNCHANGED <<envVars, mainVars, localFiles, mapping, bi, fi, retryCount,
                 bucketName, nameErr, dlErr, calls, call, sample, hist>>

NextValidate == CallValidateServerBackups

SpecValidate == InitValidate /\ [][NextValidate]_vars

\* Whole days elapsed since an object of the bucket was created.
DaysSince(created) == (now.hours - created) \div HoursPerDay

CreatedTimes(b) == {remote[b][i].Created : i \in 1..Len(remote[b])}

OldestCreated(b) == CHOOSE t \in CreatedTimes(b) : \A u \in CreatedTimes(b) : t <= u

NewestCreated(b) == CHOOSE t \in CreatedTimes(b) : \A u \in CreatedTimes(b) : t >= u

\* The case C10 is about: a non-empty bucket whose listings succeed and
\* whose objects were not created after the clock's reading.
ValidatedFreshness ==
  /\ pc = "returned"
  /\ call.fn = "validateServerBackups"
  /\ ~call.failOldest
  /\ ~call.failNewest
  /\ remote[call.bucket] # <<>>
  /\ \A t \in CreatedTimes(call.bucket) : t <= now.hours

\* C10: for a non-empty server-backup bucket validateServerBackups passes
\* exactly when the oldest object is less than OldestFileMaxAgeInDays whole
\* days old and the newest less than NewestFileMaxAgeInDays; otherwise it
\* fails with NotValid (an age equal to the threshold fails).
C10_FreshnessBoundary ==
  ValidatedFreshness =>
    LET rules == config.ServerBackupRules
        fresh == /\ DaysSince(OldestCreated(call.bucket)) < rules.OldestFileMaxAgeInDays
                 /\ DaysSince(NewestCreated(call.bucket)) < rules.NewestFileMaxAgeInDays
    IN  /\ ret = Nil <=> fresh
        /\ ret # Nil => ret.kind = "NotValid"

C10_Witness ==
  /\ ValidatedFreshness
  /\ ret = Err("NotValid", "newest")
  /\ DaysSince(NewestCreated(call.bucket)) = config.ServerBackupRules.NewestFileMaxAgeInDays
  /\ DaysSince(OldestCreated(call.bucket)) = config.ServerBackupRules.OldestFileMaxAgeInDays - 1
  /\ Len(remote[call.bucket]) > 1

\* C32: the age in days validateServerBackups compares with the thresholds is
\* floor((now - createdAt) / 24h) for every creation time, also for an object
\* created after the clock's reading, whose floor is negative; the verdict is
\* the one these ages give.
C32_AgeIsFloorOfDays ==
  (/\ pc = "returned"
   /\ call.fn = "validateServerBackups"
   /\ ~call.failOldest
   /\ ~call.failNewest
   /\ remote[call.bucket] # <<>>)
    => LET rules == config.ServerBackupRules
           oldest == OldestCreated(call.bucket)
           newest == NewestCreated(call.bucket)
       IN  /\ AgeInDays(now, oldest) = DaysSince(oldest)
           /\ AgeInDays(now, newest) = DaysSince(newest)
           /\ ret = Nil <=> /\ DaysSince(oldest) < rules.OldestFileMaxAgeInDays
                            /\ DaysSince(newest) < rules.NewestFileMaxAgeInDays

loopVars == <<fi, retryCount, bucketName, nameErr>>

\* The configurations main is run with.
MainConfigs ==
  {[DefaultConfig EXCEPT !.MaxDownloadRetries = r, !.Buckets = bs] :
     r \in 0..MaxRetriesBound,
     bs \in {<<BucketToProcess(B1, "photo"), BucketToProcess(B2, "server-backup")>>,
             <<BucketToProcess(B3, "media"), BucketToProcess(B2, "server-backup")>>}}

\* The hours at which main is run: the server backups are fresh at the
\* first and too old at the second.
MainHours == {40, 80}

\* Mutant: no error stops the program.
LogFatalNever(err) == FALSE

\* logFatalIfErr (main.go:137-141): whether the program stops.
LogFatalIfErr(err) == err # Nil

\* Mutant: the resume file is never found.
IsNotExistAlways(file) == TRUE

\* os.Stat and os.IsNotExist (main.go:111-112).
IsNotExist(file) == ~file.exists

Init ==
  /\ pc = "validate"
  /\ remote = RemoteStore
  /\ now \in {Clock(h, EpochYear, 1) : h \in MainHours}
  /\ config \in MainConfigs
  /\ localFiles = EmptyFS
  /\ inProgressFile = NoFile
  /\ bucketToFilesMapping = <<>>
  /\ call = NoCall
  /\ ret = Nil
  /\ sample = NoSample
  /\ mapping = <<>>
  /\ bi = 1
  /\ fi = 1
  /\ retryCount = 0
  /\ bucketName = <<>>
  /\ nameErr = Nil
  /\ dlErr = Nil
  /\ calls = 1
  /\ hist = NoHist

\* validateBucketsInConfig (:39-52), one bucket of the loop; main.go:104-105.
ValidateBucketStep ==
  /\ pc = "validate"
  /\ bi <= Len(config.Buckets)
  /\ \E failName, failOldest, failNewest \in BOOLEAN :
       LET err == ValidateBucket(remote, config.Buckets[bi].Name, config, now,
                                 failName, failOldest, failNewest)
       IN  /\ IF LogFatalIfErr(IF err # Nil THEN WrapW(err) ELSE Nil)
              THEN pc' = "fatal" /\ UNCHANGED bi
              ELSE bi' = bi + 1 /\ UNCHANGED pc
           /\ hist' = [hist EXCEPT !.passed = IF err = Nil THEN hist.passed + 1
                                              ELSE hist.passed,
                                   !.failed = hist.failed \/ err # Nil,
                                   !.trace = Logged(hist.trace, Event("validate", bi, 0))]
  /\ UNCHANGED <<envVars, mainVars, fnVars, localFiles, mapping, loopVars, dlErr, calls>>

\* main.go:106-112: every bucket is validated; the resume file is looked for.
MainStat ==
  /\ pc = "validate"
  /\ bi > Len(config.Buckets)
  /\ bi' = 1
  /\ IF IsNotExist(inProgressFile)
     THEN /\ pc' = "sample"
          /\ hist' = [hist EXCEPT !.existed = IF inProgressFile.exists
                                              THEN "present" ELSE "absent",
                                  !.fileAtCheck = inProgressFile,
                                  !.sampled = hist.sampled + 1]
     ELSE /\ pc' = "load"
          /\ hist' = [hist EXCEPT !.existed = IF inProgressFile.exists
                                              THEN "present" ELSE "absent",
                                  !.fileAtCheck = inProgressFile]
  /\ UNCHANGED <<envVars, mainVars, fnVars, localFiles, mapping, loopVars, dlErr, calls>>

\* getObjectsToDownloadFromBucketsInConfig (:54-67), one bucket of the loop;
\* main.go:115-116.
SampleBucketStep ==
  /\ pc = "sample"
  /\ bi <= Len(config.Buckets)
  /\ \E failName, fails \in BOOLEAN :
     \E got \in GetObjectsToDownloadFromBucket(remote, config.Buckets[bi].Name, config,
                                               now, failName, fails) :
       /\ IF got.crashed
          THEN pc' = "crashed" /\ UNCHANGED <<bi, bucketToFilesMapping>>
          ELSE IF LogFatalIfErr(IF got.err # Nil THEN WrapW(got.err) ELSE Nil)
          THEN pc' = "fatal" /\ bucketToFilesMapping' = <<>> /\ UNCHANGED bi
          ELSE /\ bucketToFilesMapping' =
                    Append(bucketToFilesMapping,
                           BucketAndFiles(config.Buckets[bi].Name, got.files))
               /\ bi' = bi + 1
               /\ UNCHANGED pc
       /\ hist' = [hist EXCEPT !.failed = hist.failed \/ got.crashed \/ got.err # Nil,
                               !.trace = Logged(hist.trace, Event("sample", bi, 0))]
  /\ UNCHANGED <<envVars, inProgressFile, fnVars, localFiles, mapping, loopVars,
                 dlErr, calls>>

\* main.go:118-119: the sample of every bucket is taken; it is saved.
MainSave ==
  /\ pc = "sample"
  /\ bi > Len(config.Buckets)
  /\ \E fault \in SaveFaults :
     \E written \in {0, Len(EncodeJSON(bucketToFilesMapping)) - 2,
                     Len(EncodeJSON(bucketToFilesMapping)) - 1} :
       LET out == SaveInProgressFile(inProgressFile, bucketToFilesMapping, fault, written)
       IN  /\ inProgressFile' = out.file
           /\ pc' = IF LogFatalIfErr(out.err) THEN "fatal" ELSE "load"
           /\ hist' = [hist EXCEPT !.failed = hist.failed \/ out.err # Nil]
  /\ UNCHANGED <<envVars, bucketToFilesMapping, fnVars, localFiles, mapping, bi,
                 loopVars, dlErr, calls>>

\* main.go:124-129: the resume file is loaded and handed to the pipeline.
MainLoad ==
  /\ pc = "load"
  /\ \E fault \in LoadFaults :
       LET out == LoadInProgressFile(inProgressFile, fault)
       IN  /\ IF LogFatalIfErr(out.err)
              THEN pc' = "fatal" /\ UNCHANGED mapping
              ELSE pc' = "dlBucket" /\ mapping' = out.data
           /\ hist' = [hist EXCEPT !.failed = hist.failed \/ out.err # Nil]
  /\ bi' = 1
  /\ UNCHANGED <<envVars, mainVars, fnVars, localFiles, loopVars, dlErr, calls>>

\* main.go:130: the pipeline has returned.
MainAfterDownload ==
  /\ pc = "dlReturned"
  /\ pc' = IF LogFatalIfErr(dlErr) THEN "fatal" ELSE "remove"
  /\ UNCHANGED <<envVars, mainVars, fnVars, localFiles, mapping, bi, loopVars,
                 dlErr, calls, hist>>

\* Mutant: the objects of the buckets are removed with the resume file.
MainRemoveWithObjects ==
  /\ pc = "remove"
  /\ inProgressFile' = NoFile
  /\ remote' = [b \in DOMAIN remote |-> <<>>]
  /\ pc' = "done"
  /\ UNCHANGED <<now, config, bucketToFilesMapping, fnVars, localFiles, mapping, bi,
                 loopVars, dlErr, calls, hist>>

\* main.go:133-134: os.Remove, whose error is dropped.
MainRemove ==
  /\ pc = "remove"
  /\ \E fails \in BOOLEAN :
       inProgressFile' = IF fails THEN inProgressFile ELSE NoFile
  /\ pc' = "done"
  /\ UNCHANGED <<envVars, bucketToFilesMapping, fnVars, localFiles, mapping, bi,
                 loopVars, dlErr, calls, hist>>

\* The program is run again, on the disk the run before it left.
Restart ==
  /\ pc \in {"done", "fatal", "crashed"}
  /\ calls < MaxCalls
  /\ calls' = calls + 1
  /\ pc' = "validate"
  /\ bucketToFilesMapping' = <<>>
  /\ mapping' = <<>>
  /\ bi' = 1
  /\ fi' = 1
  /\ retryCount' = 0
  /\ bucketName' = <<>>
  /\ nameErr' = Nil
  /\ dlErr' = Nil
  /\ hist' = NoHist
  /\ UNCHANGED <<envVars, inProgressFile, fnVars, localFiles>>

Next ==
  \/ ValidateBucketStep
  \/ MainStat
  \/ SampleBucketStep
  \/ MainSave
  \/ MainLoad
  \/ DownloadFilesFromBucketBegin
  \/ DownloadAttempt
  \/ DownloadFilesFromBucketEnd
  \/ DownloadReturn
  \/ MainAfterDownload
  \/ MainRemove
  \/ Restart

Spec == Init /\ [][Next]_vars

(***************************************************************************)
(* Properties of the program (Spec).                                       *)
(***************************************************************************)
\* Every bucket and key index of the loaded mapping.
AllPositions ==
  UNION {{<<i, j>> : j \in 1..Len(mapping[i].Files)} : i \in 1..Len(mapping)}

InDownload == pc \in {"dlBucket", "dlFile", "dlReturned", "remove", "done"}

\* C2: the resume file, once on disk, changes in one step only: the removal
\* that follows a return of nil by the pipeline, after the retry loop has
\* left every key of every bucket of the loaded mapping with success.  In
\* particular every step into a stop on a failure leaves it in place.
C2_RemovedOnlyAfterFullSuccess ==
  [][(inProgressFile.exists /\ inProgressFile' # inProgressFile)
       => /\ pc = "remove"
          /\ pc' = "done"
          /\ ~inProgressFile'.exists
          /\ dlErr = Nil
          /\ hist.done = AllPositions]_vars

C2_Witness ==
  /\ pc = "done"
  /\ ~inProgressFile.exists
  /\ calls = 2
  /\ hist.existed = "present"
  /\ hist.done = AllPositions
  /\ hist.done # {}

\* C3: in a run that found the resume file, sampling is not entered and the
\* mapping the pipeline works on is the content of the file that was found;
\* in a run that did not find it, sampling is entered exactly once, and the
\* pipeline works on the sample, which is what the file on disk holds.
C3_ResumeOrSampleOnce ==
  /\ hist.existed = "present"
       => /\ hist.sampled = 0
          /\ pc \notin {"sample"}
          /\ InDownload => /\ DecodeJSON(hist.fileAtCheck.text).ok
                           /\ mapping = DecodeJSON(hist.fileAtCheck.text).value
  /\ hist.existed = "absent"
       => /\ hist.sampled = 1
          /\ (InDownload /\ pc # "done")
               => /\ mapping = bucketToFilesMapping
                  /\ inProgressFile = [exists |-> TRUE,
                                       text |-> EncodeJSON(bucketToFilesMapping)]

C3_Witness ==
  /\ pc = "dlFile"
  /\ calls = 2
  /\ hist.existed = "present"
  /\ hist.sampled = 0
  /\ mapping # <<>>
  /\ mapping = DecodeJSON(inProgressFile.text).value

PhaseRank(phase) == IF phase = "validate" THEN 1 ELSE IF phase = "sample" THEN 2 ELSE 3

\* Event g is the piece of work that comes right after event e.
Follows(e, g) ==
  IF g.phase # e.phase
  THEN PhaseRank(g.phase) > PhaseRank(e.phase) /\ g.b = 1 /\ g.f = 0
  ELSE IF g.phase \in {"validate", "sample"} THEN g.b = e.b + 1
  ELSE \/ g.b = e.b /\ g.f = e.f + 1
       \/ g.b = e.b + 1 /\ g.f = 0 /\ e.f = Len(mapping[e.b].Files)

\* The work of the run was done in the order of the configuration and of
\* the mapping, phase after phase.
TraceOrdered ==
  /\ hist.trace # <<>> => hist.trace[1] = Event("validate", 1, 0)
  /\ \A k \in 1..(Len(hist.trace) - 1) : Follows(hist.trace[k], hist.trace[k + 1])

Worked(phase) == \E k \in 1..Len(hist.trace) : hist.trace[k].phase = phase

\* Sampling and downloading come after every bucket has passed validation;
\* downloading comes after the sampling of every bucket, or the load of the
\* resume file, has succeeded.
PhaseGates ==
  /\ (Worked("sample") \/ Worked("download")) => hist.passed = Len(config.Buckets)
  /\ Worked("download") =>
       /\ hist.existed = "present" =>
            /\ DecodeJSON(hist.fileAtCheck.text).ok
            /\ mapping = DecodeJSON(hist.fileAtCheck.text).value
       /\ hist.existed = "absent" =>
            /\ mapping = bucketToFilesMapping
            /\ Len(bucketToFilesMapping) = Len(config.Buckets)
            /\ \A i \in 1..Len(config.Buckets) :
                 \E k \in 1..Len(hist.trace) : hist.trace[k] = Event("sample", i, 0)

\* After a step of the run has ended in an error that is not retried, no
\* bucket and no key is worked on in that run.
FailFast == hist.failed => hist'.trace \in {hist.trace, <<>>}

\* C12: in a run of main the phases are ordered and fail-fast: sampling and
\* downloading only after every configured bucket passed validation in this
\* run, downloading only after sampling or loading succeeded, buckets and
\* keys in the order of the configuration and of the mapping, and nothing
\* worked on after the first failure.
C12_PhasesOrderedFailFast ==
  [][PhaseGates' /\ TraceOrdered' /\ FailFast]_vars

\* C26: the resume file is written only by the save that follows a sampling
\* phase that succeeded for every bucket, once in a run of the program (the
\* file is not there before the save), and then changes only by the removal
\* at the end: no step of the download pipeline, successful or failed,
\* changes it.
C26_ResumeFileWrittenOnce ==
  [][inProgressFile' # inProgressFile =>
       \/ /\ pc = "sample"
          /\ bi > Len(config.Buckets)
          /\ Len(bucketToFilesMapping) = Len(config.Buckets)
          /\ ~hist.failed
          /\ ~inProgressFile.exists
          /\ pc' \in {"load", "fatal"}
       \/ /\ pc = "remove"
          /\ inProgressFile' = NoFile]_vars

\* The pipeline has failed on the mapping this run sampled and saved, and
\* the resume file still holds the mapping.
C26_Witness ==
  /\ pc = "dlReturned"
  /\ dlErr # Nil
  /\ hist.existed = "absent"
  /\ hist.attempts > 0
  /\ mapping # <<>>
  /\ inProgressFile = [exists |-> TRUE, text |-> EncodeJSON(mapping)]

\* C27: no step of the program, in validation, the scans for the oldest and
\* newest object, sampling, download or verification, changes the content of
\* a bucket.
C27_RemoteNeverChanged ==
  [][remote' = remote]_vars

\* A run has validated, sampled, downloaded and verified files and removed
\* its resume file, and every bucket holds what it held.
C27_Witness ==
  /\ pc = "done"
  /\ hist.sampled > 0
  /\ DOMAIN localFiles # {}
  /\ remote = RemoteStore

\* C33: a resume file that is on disk when an invocation starts, or when it
\* goes on to load it, holds a loadable mapping with one entry for every
\* configured bucket, in order: a failed save leaves no file that the next
\* invocation takes for a finished sampling.
C33_ResumeFileIsComplete ==
  (inProgressFile.exists /\ pc \in {"validate", "load"}) =>
     LET got == DecodeJSON(inProgressFile.text)
     IN  /\ got.ok
         /\ Len(got.value) = Len(config.Buckets)
         /\ \A i \in 1..Len(got.value) : got.value[i].BucketName = config.Buckets[i].Name

(***************************************************************************)
(* The sampling functions and the resume store called on their own         *)
(* (SpecSample), as the tests of the repository call them.                 *)
(***************************************************************************)
Range(seq) == {seq[i] : i \in 1..Len(seq)}

IsInjective(seq) == \A i, j \in 1..Len(seq) : i # j => seq[i] # seq[j]

\* Buckets of up to MaxBackups objects with creation times 1..MaxBackups, in
\* every listing order, ties included.
TimedBuckets ==
  {[i \in 1..Len(times) |-> Obj(<<"o", IndexNames[i]>>, times[i], CA)] :
     times \in SeqUpTo(1..MaxBackups, MaxBackups)}

ServerCases ==
  {[call |-> [fn |-> "getServerBackupsToDownload", bucket |-> B1, fails |-> f],
    remote |-> (B1 :> objs),
    now |-> Clock(0, EpochYear, 1),
    config |-> [DefaultConfig EXCEPT !.FilesToDownload.ServerBackups = k]] :
     objs \in TimedBuckets, k \in 0..(MaxBackups + 1), f \in BOOLEAN}

RandomCases ==
  {[call |-> [fn |-> "getRandomSampleFromPopulation", sampleSize |-> k, population |-> n],
    remote |-> RemoteStore,
    now |-> Clock(0, EpochYear, 1),
    config |-> DefaultConfig] :
     k \in (-1)..(MaxPopulation + 1), n \in 0..MaxPopulation}

\* The listing of a bucket that holds the keys of S.
ListingOf(S) ==
  LET Held(k) == k \in S
      names == SelectSeq(KeyOrder, Held)
  IN  [i \in 1..Len(names) |-> Obj(names[i], i, CA)]

StrategyBuckets ==
  {ListingOf(S) : S \in {T \in SUBSET Range(KeyOrder) : Cardinality(T) <= MaxListed}}

Clocks == {Clock(0, EpochYear, 1), Clock(0, EpochYear + 1, 2)}

ObjectsCases ==
  {[call |-> [fn |-> "getObjectsToDownloadFromBucket", bucket |-> B1,
              failName |-> fn, fails |-> f],
    remote |-> (B1 :> objs),
    now |-> Clock(0, EpochYear, 1),
    config |-> [DefaultConfig EXCEPT
                  !.Buckets = bs,
                  !.FilesToDownload = [ServerBackups |-> n, EpisodesFromEachShow |-> n,
                                       PhotosFromThisMonth |-> n,
                                       PhotosFromEachYear |-> n]]] :
     objs \in StrategyBuckets, n \in 1..MaxWanted, fn \in BOOLEAN, f \in BOOLEAN,
     bs \in {<<>>} \cup {<<BucketToProcess(B1, t)>> :
                           t \in {"media", "photo", "server-backup", "empty"}}}

MediaCases ==
  {[call |-> [fn |-> "getMediaFilesToDownload", bucket |-> B1, fails |-> f],
    remote |-> (B1 :> objs),
    now |-> Clock(0, EpochYear, 1),
    config |-> [DefaultConfig EXCEPT !.FilesToDownload.EpisodesFromEachShow = n]] :
     objs \in StrategyBuckets, n \in 0..MaxWanted, f \in BOOLEAN}

PhotoCases ==
  {[call |-> [fn |-> "getPhotosToDownload", bucket |-> B1, fails |-> f],
    remote |-> (B1 :> objs),
    now |-> clock,
    config |-> [DefaultConfig EXCEPT !.FilesToDownload.PhotosFromEachYear = n,
                                     !.FilesToDownload.PhotosFromThisMonth = m]] :
     objs \in StrategyBuckets, n \in 0..MaxWanted, m \in 0..MaxWanted,
     clock \in Clocks, f \in BOOLEAN}

Prefixes == {<<>>, <<"s", "/">>, <<"2", "0", "1", "0", "-">>}

FilesCases ==
  {[call |-> [fn |-> "getRandomFilesFromBucket", bucket |-> B1, num |-> n,
              prefix |-> pre, fails |-> f],
    remote |-> (B1 :> objs),
    now |-> Clock(0, EpochYear, 1),
    config |-> DefaultConfig] :
     objs \in StrategyBuckets, n \in (-1)..MaxWanted, pre \in Prefixes, f \in BOOLEAN}

\* A key with the characters json writes behind a backslash.
KeyQuoted == <<"a", "\"", "\\">>

\* The mappings handed to saveInProgressFile (TestSaveInProgressFile), an
\* entry without files among them.
ResumeMappings ==
  SeqUpTo({BucketAndFiles(b, f) : b \in BucketNames, f \in SeqUpTo({K1, KeyQuoted}, MaxFiles)},
          MaxBuckets)

ResumeCases ==
  {[call |-> [fn |-> "saveInProgressFile", data |-> m],
    remote |-> RemoteStore,
    now |-> Clock(0, EpochYear, 1),
    config |-> DefaultConfig] :
     m \in ResumeMappings}

\* Names and configurations given to
\* getBucketValidationTypeFromNameAndConfig
\* (TestGetBucketValidationTypeFromNameAndConfig), a name with two specs
\* among them.
TypeCases ==
  {[call |-> [fn |-> "getBucketValidationTypeFromNameAndConfig", name |-> n,
              configs |-> bs],
    remote |-> RemoteStore,
    now |-> Clock(0, EpochYear, 1),
    config |-> DefaultConfig] :
     n \in BucketNames \cup {<<>>},
     bs \in SeqUpTo({BucketToProcess(b, t) : b \in BucketNames,
                                             t \in {"media", "photo", "empty"}},
                    MaxBuckets)}

\* Buckets, configurations and freshness rules given to validateBucket
\* (TestValidateBucket): every declared type, a type without a validator,
\* and a bucket whose name has no spec.
BucketCases ==
  {[call |-> [fn |-> "validateBucket", bucket |-> B1, failName |-> fn,
              failOldest |-> fo, failNewest |-> fw],
    remote |-> (B1 :> objs),
    now |-> Clock(0, EpochYear, 1),
    config |-> [DefaultConfig EXCEPT !.Buckets = bs, !.ServerBackupRules = r]] :
     objs \in AgedBuckets, fn \in BOOLEAN, fo \in BOOLEAN, fw \in BOOLEAN,
     r \in {[OldestFileMaxAgeInDays |-> d, NewestFileMaxAgeInDays |-> d] :
             d \in {0, MaxThreshold}},
     bs \in {<<>>, <<BucketToProcess(B2, "media")>>} \cup
             {<<BucketToProcess(B1, t)>> :
                t \in {"media", "photo", "server-backup", "empty"}}}

\* Buckets given to getOldestObjectFromBucket and getNewestObjectFromBucket
\* (TestGetOldestObjectFromBucket, TestGetNewestObjectFromBucket), the empty
\* bucket and buckets with ties among them.
ExtremumCases ==
  {[call |-> [fn |-> fn, bucket |-> B1, fails |-> f],
    remote |-> (B1 :> objs),
    now |-> Clock(0, EpochYear, 1),
    config |-> DefaultConfig] :
     fn \in {"getOldestObjectFromBucket", "getNewestObjectFromBucket"},
     objs \in TimedBuckets, f \in BOOLEAN}

TopDirCases ==
  {[call |-> [fn |-> "getBucketTopLevelDirs", bucket |-> B1, fails |-> f],
    remote |-> (B1 :> objs),
    now |-> Clock(0, EpochYear, 1),
    config |-> DefaultConfig] :
     objs \in StrategyBuckets, f \in BOOLEAN}

\* The state before a call of the case set.
InitCall(Cases) ==
  /\ pc = "call"
  /\ \E c \in Cases :
       /\ call = c.call
       /\ remote = c.remote
       /\ config = c.config
       /\ now = c.now
  /\ localFiles = EmptyFS
  /\ inProgressFile = NoFile
  /\ bucketToFilesMapping = <<>>
  /\ mapping = <<>>
  /\ bi = 1
  /\ fi = 1
  /\ retryCount = 0
  /\ bucketName = <<>>
  /\ nameErr = Nil
  /\ dlErr = Nil
  /\ calls = 1
  /\ ret = Nil
  /\ sample = NoSample
  /\ hist = NoHist

InitSample ==
  \/ InitCall(ServerCases)
  \/ InitCall(RandomCases)
  \/ InitCall(ObjectsCases)
  \/ InitCall(MediaCases)
  \/ InitCall(PhotoCases)
  \/ InitCall(FilesCases)
  \/ InitCall(ResumeCases)
  \/ InitCall(TypeCases)
  \/ InitCall(BucketCases)
  \/ InitCall(ExtremumCases)
  \/ InitCall(TopDirCases)

\* A call of getServerBackupsToDownload (TestGetServerBackupsToDownload).
CallGetServerBackupsToDownload ==
  /\ pc = "call"
  /\ call.fn = "getServerBackupsToDownload"
  /\ ret' \in GetServerBackupsToDownload(remote, call.bucket, config.FilesToDownload,
                                        call.fails)
  /\ pc' = "returned"
  /\ UNCHANGED <<envVars, mainVars, localFiles, mapping, bi, loopVars, dlErr, calls,
                 call, sample, hist>>

\* Mutant: the loop is entered whatever the arguments are.
CallWithoutEarlyReturn ==
  /\ pc = "call"
  /\ call.fn = "getRandomSampleFromPopulation"
  /\ sample' = [slots |-> [j \in 1..call.sampleSize |-> 0], i |-> 0]
  /\ pc' = "draw"
  /\ UNCHANGED <<envVars, mainVars, localFiles, mapping, bi, loopVars, dlErr, calls,
                 call, ret, hist>>

\* getRandomSampleFromPopulation is entered (:472-477).
CallGetRandomSampleFromPopulation ==
  /\ pc = "call"
  /\ call.fn = "getRandomSampleFromPopulation"
  /\ IF call.sampleSize > call.population \/ call.sampleSize <= 0
     THEN /\ pc' = "returned"
          /\ ret' = <<>>
          /\ UNCHANGED sample
     ELSE /\ pc' = "draw"
          /\ sample' = [slots |-> [j \in 1..call.sampleSize |-> 0], i |-> 0]
          /\ UNCHANGED ret
  /\ UNCHANGED <<envVars, mainVars, localFiles, mapping, bi, loopVars, dlErr, calls,
                 call, hist>>

\* :479-495: one pass of the loop, with any value rand.Int() can give.
RandomDraw ==
  /\ pc = "draw"
  /\ sample.i < call.sampleSize
  /\ \E selection \in 0..(call.population - 1) : sample' = Draw(sample, selection)
  /\ UNCHANGED <<pc, envVars, mainVars, localFiles, mapping, bi, loopVars, dlErr, calls,
                 call, ret, hist>>

\* :479-481 and :497: the sample is full and returned.
RandomReturn ==
  /\ pc = "draw"
  /\ sample.i >= call.sampleSize
  /\ pc' = "returned"
  /\ ret' = sample.slots
  /\ UNCHANGED <<envVars, mainVars, localFiles, mapping, bi, loopVars, dlErr, calls,
                 call, sample, hist>>

\* A call of getObjectsToDownloadFromBucket
\* (TestGetObjectsToDownloadFromBucket).
CallGetObjectsToDownloadFromBucket ==
  /\ pc = "call"
  /\ call.fn = "getObjectsToDownloadFromBucket"
  /\ ret' \in GetObjectsToDownloadFromBucket(remote, call.bucket, config, now,
                                            call.failName, call.fails)
  /\ pc' = "returned"
  /\ UNCHANGED <<envVars, mainVars, localFiles, mapping, bi, loopVars, dlErr, calls,
                 call, sample, hist>>

\* A call of getBucketTopLevelDirs (TestGetBucketTopLevelDirs).
CallGetBucketTopLevelDirs ==
  /\ pc = "call"
  /\ call.fn = "getBucketTopLevelDirs"
  /\ ret' = GetBucketTopLevelDirs(remote, call.bucket, call.fails)
  /\ pc' = "returned"
  /\ UNCHANGED <<envVars, mainVars, localFiles, mapping, bi, loopVars, dlErr, calls,
                 call, sample, hist>>

\* A call of getMediaFilesToDownload (TestGetMediaFilesToDownload).
CallGetMediaFilesToDownload ==
  /\ pc = "call"
  /\ call.fn = "getMediaFilesToDownload"
  /\ ret' \in GetMediaFilesToDownload(remote, call.bucket, config.FilesToDownload,
                                     call.fails)
  /\ pc' = "returned"
  /\ UNCHANGED <<envVars, mainVars, localFiles, mapping, bi, loopVars, dlErr, calls,
                 call, sample, hist>>

\* A call of getPhotosToDownload (TestGetPhotosToDownload).
CallGetPhotosToDownload ==
  /\ pc = "call"
  /\ call.fn = "getPhotosToDownload"
  /\ ret' \in GetPhotosToDownload(remote, call.bucket, config.FilesToDownload, now,
                                 call.fails)
  /\ pc' = "returned"
  /\ UNCHANGED <<envVars, mainVars, localFiles, mapping, bi, loopVars, dlErr, calls,
                 call, sample, hist>>

\* A call of getRandomFilesFromBucket (TestGetRandomFilesFromBucket).
CallGetRandomFilesFromBucket ==
  /\ pc = "call"
  /\ call.fn = "getRandomFilesFromBucket"
  /\ ret' \in GetRandomFilesFromBucket(remote, call.bucket, call.num, call.prefix,
                                      call.fails)
  /\ pc' = "returned"
  /\ UNCHANGED <<envVars, mainVars, localFiles, mapping, bi, loopVars, dlErr, calls,
                 call, sample, hist>>

\* A call of saveInProgressFile (TestSaveInProgressFile).
CallSaveInProgressFile ==
  /\ pc = "call"
  /\ call.fn = "saveInProgressFile"
  /\ \E fault \in SaveFaults :
     \E written \in {0, Len(EncodeJSON(call.data)) - 2, Len(EncodeJSON(call.data)) - 1} :
       LET out == SaveInProgressFile(inProgressFile, call.data, fault, written)
       IN  /\ inProgressFile' = out.file
           /\ ret' = [err |-> out.err]
  /\ pc' = "saved"
  /\ UNCHANGED <<envVars, bucketToFilesMapping, localFiles, mapping, bi, loopVars,
                 dlErr, calls, call, sample, hist>>

\* A call of loadInProgressFile on the file of the save before it
\* (TestLoadInProgressFile).
CallLoadInProgressFile ==
  /\ pc = "saved"
  /\ \E fault \in LoadFaults :
       LET out == LoadInProgressFile(inProgressFile, fault)
       IN  /\ call' = [fn |-> "loadInProgressFile", saved |-> call.data,
                       saveErr |-> ret.err, fault |-> fault]
           /\ ret' = [data |-> out.data, err |-> out.err]
  /\ pc' = "returned"
  /\ UNCHANGED <<envVars, mainVars, localFiles, mapping, bi, loopVars, dlErr, calls,
                 sample, hist>>

\* A call of getBucketValidationTypeFromNameAndConfig.
CallGetBucketValidationTypeFromNameAndConfig ==
  /\ pc = "call"
  /\ call.fn = "getBucketValidationTypeFromNameAndConfig"
  /\ ret' = GetBucketValidationTypeFromNameAndConfig(call.name, call.configs)
  /\ pc' = "returned"
  /\ UNCHANGED <<envVars, mainVars, localFiles, mapping, bi, loopVars, dlErr, calls,
                 call, sample, hist>>

\* A call of validateBucket (TestValidateBucket).
CallValidateBucket ==
  /\ pc = "call"
  /\ call.fn = "validateBucket"
  /\ ret' = [err |-> ValidateBucket(remote, call.bucket, config, now, call.failName,
                                    call.failOldest, call.failNewest)]
  /\ pc' = "returned"
  /\ UNCHANGED <<envVars, mainVars, localFiles, mapping, bi, loopVars, dlErr, calls,
                 call, sample, hist>>

\* A call of getOldestObjectFromBucket.
CallGetOldestObjectFromBucket ==
  /\ pc = "call"
  /\ call.fn = "getOldestObjectFromBucket"
  /\ ret' = GetOldestObjectFromBucket(remote, call.bucket, call.fails)
  /\ pc' = "returned"
  /\ UNCHANGED <<envVars, mainVars, localFiles, mapping, bi, loopVars, dlErr, calls,
                 call, sample, hist>>

\* A call of getNewestObjectFromBucket.
CallGetNewestObjectFromBucket ==
  /\ pc = "call"
  /\ call.fn = "getNewestObjectFromBucket"
  /\ ret' = GetNewestObjectFromBucket(remote, call.bucket, call.fails)
  /\ pc' = "returned"
  /\ UNCHANGED <<envVars, mainVars, localFiles, mapping, bi, loopVars, dlErr, calls,
                 call, sample, hist>>

NextSample ==
  \/ CallGetOldestObjectFromBucket
  \/ CallGetNewestObjectFromBucket
  \/ CallValidateBucket
  \/ CallGetBucketValidationTypeFromNameAndConfig
  \/ CallSaveInProgressFile
  \/ CallLoadInProgressFile
  \/ CallGetServerBackupsToDownload
  \/ CallGetObjectsToDownloadFromBucket
  \/ CallGetBucketTopLevelDirs
  \/ CallGetMediaFilesToDownload
  \/ CallGetPhotosToDownload
  \/ CallGetRandomFilesFromBucket
  \/ CallGetRandomSampleFromPopulation
  \/ RandomDraw
  \/ RandomReturn

SpecSample == InitSample /\ [][NextSample]_vars

ReturnedFrom(fn) == pc = "returned" /\ call.fn = fn

\* The objects of the bucket of the call.
CallObjects == Range(remote[call.bucket])

\* The names of the objects with fewer than k strictly newer objects.
MostRecent(k) ==
  {o.Name : o \in {x \in CallObjects :
                     Cardinality({y \in CallObjects : y.Created > x.Created}) < k}}

\* C13: for a bucket whose objects have distinct creation times and
\* 0 < K <= number of objects, getServerBackupsToDownload returns K
\* different keys, which are those of the K most recently created objects,
\* in every listing order; with K the number of objects, all of them.
C13_TopKMostRecent ==
  LET k == config.FilesToDownload.ServerBackups
      objs == remote[call.bucket]
  IN  (/\ ReturnedFrom("getServerBackupsToDownload")
       /\ ~call.fails
       /\ IsInjective([i \in 1..Len(objs) |-> objs[i].Created])
       /\ 0 < k
       /\ k <= Len(objs))
        => /\ ~ret.crashed
           /\ ret.err = Nil
           /\ Len(ret.files) = k
           /\ IsInjective(ret.files)
           /\ Range(ret.files) = MostRecent(k)
           /\ k = Len(objs) => Range(ret.files) = {o.Name : o \in CallObjects}

C13_Witness ==
  /\ ReturnedFrom("getServerBackupsToDownload")
  /\ ~call.fails
  /\ config.FilesToDownload.ServerBackups = 2
  /\ Len(remote[call.bucket]) = 3
  /\ [i \in 1..3 |-> remote[call.bucket][i].Created] = <<2, 3, 1>>
  /\ Range(ret.files) = {<<"o", "1">>, <<"o", "2">>}

\* C14: for every K >= 0, getServerBackupsToDownload on a bucket that can
\* be listed returns without a panic: NotFound when the bucket has fewer
\* than K objects, and K keys without an error otherwise.
C14_TopKNeverCrashes ==
  LET k == config.FilesToDownload.ServerBackups
      objs == remote[call.bucket]
  IN  (ReturnedFrom("getServerBackupsToDownload") /\ ~call.fails /\ k >= 0)
        => /\ ~ret.crashed
           /\ Len(objs) < k => (ret.err.kind = "NotFound" /\ ret.files = <<>>)
           /\ Len(objs) >= k => (ret.err = Nil /\ Len(ret.files) = k)

\* C15: getRandomSampleFromPopulation(k, n) returns, for 0 < k <= n, k
\* pairwise different indices, each in 0..n-1, and returns nil for k <= 0
\* and for k > n; while the loop runs the slots filled so far are pairwise
\* different indices of the population.
C15_SampleDistinctInRange ==
  /\ ReturnedFrom("getRandomSampleFromPopulation") =>
       /\ (0 < call.sampleSize /\ call.sampleSize <= call.population) =>
            /\ Len(ret) = call.sampleSize
            /\ IsInjective(ret)
            /\ \A j \in 1..Len(ret) : ret[j] \in 0..(call.population - 1)
       /\ (call.sampleSize <= 0 \/ call.sampleSize > call.population) => ret = <<>>
       /\ ret \in GetRandomSampleFromPopulation(call.sampleSize, call.population)
  /\ pc = "draw" =>
       /\ sample.i <= call.sampleSize
       /\ IsInjective(SubSeq(sample.slots, 1, sample.i))
       /\ \A j \in 1..sample.i : sample.slots[j] \in 0..(call.population - 1)

C15_Witness ==
  /\ ReturnedFrom("getRandomSampleFromPopulation")
  /\ call.sampleSize = MaxPopulation
  /\ call.population = MaxPopulation
  /\ Len(ret) = MaxPopulation
  /\ ret[1] = MaxPopulation - 1
  /\ ret[MaxPopulation] = 0

\* The objects of the bucket of the call that a sampling with the prefix
\* draws from.
Candidates(prefix) ==
  {o \in CallObjects : HasPrefix(o.Name, prefix) /\ ~BannedName(o.Name)}

\* The directories of the top level of the bucket of the call.
Shows == {TopPrefix(o.Name) : o \in {x \in CallObjects : FirstSlash(x.Name, 1) # 0}}

YearPrefix(year) == Itoa(year) \o <<"-">>

MonthPrefix == Itoa(now.year) \o <<"-">> \o Itoa02(now.month)

\* The bucket of the call has fewer candidates than the strategy of the
\* type asks for.
TooFewFor(type) ==
  IF type = "server-backup"
  THEN Len(remote[call.bucket]) < config.FilesToDownload.ServerBackups
  ELSE IF type = "photo"
  THEN \/ \E year \in EpochYear..now.year :
            Cardinality(Candidates(YearPrefix(year))) < config.FilesToDownload.PhotosFromEachYear
       \/ Cardinality(Candidates(MonthPrefix)) < config.FilesToDownload.PhotosFromThisMonth
  ELSE \E show \in Shows :
         Cardinality(Candidates(show)) < config.FilesToDownload.EpisodesFromEachShow

\* C16: for a bucket of type media, photo or server-backup that has fewer
\* candidates than its strategy asks for, getObjectsToDownloadFromBucket
\* returns, without a panic, an error that errors.Is classifies as NotFound.
C16_TooFewIsNotFound ==
  (/\ ReturnedFrom("getObjectsToDownloadFromBucket")
   /\ ~call.failName
   /\ ~call.fails
   /\ config.Buckets # <<>>
   /\ config.Buckets[1].Type \in {"media", "photo", "server-backup"}
   /\ TooFewFor(config.Buckets[1].Type))
    => /\ ~ret.crashed
       /\ ret.err.kind = "NotFound"
       /\ ret.files = <<>>

\* The keys of the result that begin with the prefix.
ReturnedWith(prefix) == {k \in Range(ret.files) : HasPrefix(k, prefix)}

\* C17: getMediaFilesToDownload on a bucket in which every show has at
\* least EpisodesFromEachShow candidates returns (number of shows) x
\* EpisodesFromEachShow keys, for each show that many different keys with
\* the show's prefix, none of them banned; if a show has fewer candidates
\* the call fails.
C17_MediaPerShow ==
  LET n == config.FilesToDownload.EpisodesFromEachShow
  IN  (ReturnedFrom("getMediaFilesToDownload") /\ ~call.fails) =>
        IF \A show \in Shows : Cardinality(Candidates(show)) >= n
        THEN /\ ~ret.crashed
             /\ ret.err = Nil
             /\ Len(ret.files) = Cardinality(Shows) * n
             /\ IsInjective(ret.files)
             /\ \A show \in Shows : Cardinality(ReturnedWith(show)) = n
             /\ \A k \in Range(ret.files) : ~BannedName(k)
        ELSE ret.err # Nil

\* C31: getBucketTopLevelDirs returns the directory prefixes of the top level
\* of the bucket, each once, and nothing else: no entry for an empty bucket,
\* and no entry, in particular no empty prefix, for an object of the top
\* level.
C31_OnlyDirectoryPrefixes ==
  (ReturnedFrom("getBucketTopLevelDirs") /\ ~call.fails) =>
     /\ ret.err = Nil
     /\ IsInjective(ret.dirs)
     /\ Range(ret.dirs) = Shows
     /\ \A i \in 1..Len(ret.dirs) : ret.dirs[i] # <<>>

\* C36: the key list getPhotosToDownload returns holds no key twice: the
\* keys drawn for the years and the keys drawn for the current month are
\* pairwise different.
C36_PhotosHaveNoDuplicate ==
  (ReturnedFrom("getPhotosToDownload") /\ ~ret.crashed /\ ret.err = Nil) =>
     IsInjective(ret.files)

\* The name ends in 'aae' in any mix of upper and lower case.
EndsInAae(s) ==
  /\ Len(s) >= 3
  /\ s[Len(s) - 2] \in {"a", "A"}
  /\ s[Len(s) - 1] \in {"a", "A"}
  /\ s[Len(s)] \in {"e", "E"}

\* The objects under the prefix of the call whose name does not end in 'aae'.
Eligible ==
  {o \in CallObjects : HasPrefix(o.Name, call.prefix) /\ ~EndsInAae(o.Name)}

\* C18: getRandomFilesFromBucket leaves out of the population exactly the
\* objects whose key ends in 'aae' (any case): it succeeds with num keys of
\* objects not ending in 'aae' whenever there are at least num of them, a
\* key with 'aae' only before its end among them, and fails with NotFound
\* only when there are fewer.
C18_BannedIsSuffixOnly ==
  (ReturnedFrom("getRandomFilesFromBucket") /\ ~call.fails /\ call.num > 0) =>
    IF call.num > Cardinality(Eligible)
    THEN ret.err.kind = "NotFound"
    ELSE /\ ret.err = Nil
         /\ Len(ret.files) = call.num
         /\ Range(ret.files) \subseteq {o.Name : o \in Eligible}

\* The keys at the positions from..to of the result are different keys of
\* candidates under the prefix.
DrawnFrom(from, to, prefix) ==
  /\ \A i \in from..to : ret.files[i] \in {o.Name : o \in Candidates(prefix)}
  /\ \A i, j \in from..to : i # j => ret.files[i] # ret.files[j]

\* C19: getPhotosToDownload draws, for every year from 2010 through the
\* current year, PhotosFromEachYear keys with the prefix 'YYYY-' and then
\* PhotosFromThisMonth keys with the prefix 'YYYY-MM' of the current month,
\* so a successful result has (currentYear - 2009) x PhotosFromEachYear +
\* PhotosFromThisMonth entries; it fails if a year or the current month
\* has fewer candidates than asked for.
C19_PhotosPerYearAndMonth ==
  LET n == config.FilesToDownload.PhotosFromEachYear
      m == config.FilesToDownload.PhotosFromThisMonth
      years == EpochYear..now.year
  IN  (ReturnedFrom("getPhotosToDownload") /\ ~call.fails) =>
        IF /\ \A year \in years : Cardinality(Candidates(YearPrefix(year))) >= n
           /\ Cardinality(Candidates(MonthPrefix)) >= m
        THEN /\ ret.err = Nil
             /\ Len(ret.files) = (now.year - (EpochYear - 1)) * n + m
             /\ \A year \in years :
                  DrawnFrom((year - EpochYear) * n + 1, (year - EpochYear + 1) * n,
                            YearPrefix(year))
             /\ DrawnFrom(Len(ret.files) - m + 1, Len(ret.files), MonthPrefix)
        ELSE ret.err # Nil

\* A call in the second year that drew one photo of each year and one of
\* the current month.
C19_Witness ==
  /\ ReturnedFrom("getPhotosToDownload")
  /\ now.year = EpochYear + 1
  /\ config.FilesToDownload.PhotosFromEachYear = 1
  /\ config.FilesToDownload.PhotosFromThisMonth = 1
  /\ ret.err = Nil
  /\ ret.files = <<K1, K8, K8>>

\* C20: after a successful saveInProgressFile of a non-empty mapping,
\* loadInProgressFile of the same file succeeds and returns the saved
\* mapping: the same buckets in the same order, each with the same keys in
\* the same order, an entry without files included.
C20_ResumeRoundTrip ==
  (/\ ReturnedFrom("loadInProgressFile")
   /\ call.saveErr = Nil
   /\ call.saved # <<>>) =>
    /\ call.fault = "none" => ret.err = Nil
    /\ ret.err = Nil => ret.data = call.saved

\* A mapping with an entry without files and an entry with a key json
\* escapes has been saved and loaded.
C20_Witness ==
  /\ ReturnedFrom("loadInProgressFile")
  /\ call.saveErr = Nil
  /\ call.saved = <<BucketAndFiles(B1, <<>>), BucketAndFiles(B2, <<KeyQuoted, K1>>)>>
  /\ ret.err = Nil
  /\ ret.data = call.saved

\* C22: getBucketValidationTypeFromNameAndConfig returns the type of the
\* first spec whose name is the name given, with no error, and a NotFound
\* error if no spec has the name; the name and the specs alone fix the
\* result.
C22_TypeOfFirstMatch ==
  ReturnedFrom("getBucketValidationTypeFromNameAndConfig") =>
    LET matches == {i \in 1..Len(call.configs) : call.configs[i].Name = call.name}
    IN  IF matches = {}
        THEN ret.err.kind = "NotFound" /\ ret.type = ""
        ELSE /\ ret.err = Nil
             /\ ret.type = call.configs[CHOOSE i \in matches :
                                          \A j \in matches : i <= j].Type

\* The name has two specs of different types and the call returned the type
\* of the first.
C22_Witness ==
  /\ ReturnedFrom("getBucketValidationTypeFromNameAndConfig")
  /\ call.name = B2
  /\ call.configs = <<BucketToProcess(B2, "photo"), BucketToProcess(B2, "media")>>
  /\ ret.type = "photo"
  /\ ret.err = Nil

\* The type the configuration declares for the bucket of the call: that of
\* the first spec with its name, "" if there is none.
DeclaredType ==
  LET specs == {i \in 1..Len(config.Buckets) : config.Buckets[i].Name = call.bucket}
  IN  IF specs = {} THEN ""
      ELSE config.Buckets[CHOOSE i \in specs : \A j \in specs : i <= j].Type

\* C23: for an existing bucket whose name has no spec or whose declared type
\* is none of media, photo and server-backup, validateBucket and
\* getObjectsToDownloadFromBucket fail with a NotFound error and return no
\* key; they list no object: the result is the same when every listing of
\* the bucket would fail.
C23_UnclassifiedIsNotFound ==
  (/\ pc = "returned"
   /\ call.fn \in {"validateBucket", "getObjectsToDownloadFromBucket"}
   /\ ~call.failName
   /\ DeclaredType \notin {"media", "photo", "server-backup"}) =>
    /\ ret.err.kind = "NotFound"
    /\ call.fn = "getObjectsToDownloadFromBucket" => ret.files = <<>> /\ ~ret.crashed

\* validateBucket returned NotFound for a bucket of a type without a
\* validator, although the bucket holds objects and its listing fails.
C23_Witness ==
  /\ ReturnedFrom("validateBucket")
  /\ ~call.failName
  /\ call.failOldest
  /\ DeclaredType = "empty"
  /\ remote[call.bucket] # <<>>
  /\ ret.err.kind = "NotFound"

\* C24: for an existing bucket declared media or photo validateBucket
\* returns success, whatever the bucket holds and whatever the freshness
\* rules are; it lists no object: the result is the same when every listing
\* of the bucket would fail.
C24_MediaAndPhotoPass ==
  (/\ ReturnedFrom("validateBucket")
   /\ ~call.failName
   /\ DeclaredType \in {"media", "photo"}) =>
    ret.err = Nil

\* validateBucket passed an empty photo bucket whose listing would fail,
\* under the strictest freshness rules.
C24_Witness ==
  /\ ReturnedFrom("validateBucket")
  /\ ~call.failName
  /\ call.failOldest
  /\ call.failNewest
  /\ DeclaredType = "photo"
  /\ remote[call.bucket] = <<>>
  /\ config.ServerBackupRules.OldestFileMaxAgeInDays = 0
  /\ ret.err = Nil

\* The first object of the listing of the bucket of the call that no other
\* object beats: Beats(a, b) says creation time a is more extreme than b.
FirstExtremum(Beats(_, _)) ==
  LET objs == remote[call.bucket]
      i == CHOOSE k \in 1..Len(objs) :
             /\ \A j \in 1..Len(objs) : ~Beats(objs[j].Created, objs[k].Created)
             /\ \A j \in 1..(k - 1) : Beats(objs[k].Created, objs[j].Created)
  IN  objs[i]

\* C25: getOldestObjectFromBucket and getNewestObjectFromBucket return an
\* object with the minimum, respectively maximum, creation time of the
\* bucket, among ties the first one listed; nil and no error for an empty
\* bucket; an error only when the listing fails.
C25_ExtremumFirstOfTies ==
  LET Older(a, b) == a < b
      Newer(a, b) == a > b
      objs == remote[call.bucket]
  IN  (pc = "returned"
       /\ call.fn \in {"getOldestObjectFromBucket", "getNewestObjectFromBucket"}) =>
        IF call.fails THEN ret.err # Nil
        ELSE /\ ret.err = Nil
             /\ ret.obj.nil <=> objs = <<>>
             /\ objs # <<>> =>
                  ret.obj.Name = (IF call.fn = "getOldestObjectFromBucket"
                                  THEN FirstExtremum(Older)
                                  ELSE FirstExtremum(Newer)).Name

\* The oldest of three objects of which the first two tie for the minimum is
\* the first.
C25_Witness ==
  /\ ReturnedFrom("getOldestObjectFromBucket")
  /\ ~call.fails
  /\ Len(remote[call.bucket]) = 3
  /\ remote[call.bucket][1].Created = 1
  /\ remote[call.bucket][2].Created = 1
  /\ remote[call.bucket][3].Created = 2
  /\ ret.obj.Name = remote[call.bucket][1].Name

\* The creation time of the object of the bucket of the call with the name.
CreatedOf(name) == (CHOOSE o \in CallObjects : o.Name = name).Created

\* C30: getServerBackupsToDownload returns its keys from the most recently
\* created to the least recently created: once every listed object has been
\* processed the filled slots of the top-K array come first and are in
\* non-increasing order of creation time, in every listing order.
C30_TopKNewestFirst ==
  LET k == config.FilesToDownload.ServerBackups
      slots == TopFrom(remote[call.bucket], 1, [i \in 1..k |-> NoObj])
  IN  (ReturnedFrom("getServerBackupsToDownload") /\ ~call.fails /\ k > 0) =>
        /\ \A i \in 1..(k - 1) :
             ~slots[i + 1].nil =>
               ~slots[i].nil /\ slots[i].Created >= slots[i + 1].Created
        /\ ret.err = Nil =>
             /\ ret.files = [i \in 1..k |-> slots[i].Name]
             /\ \A i \in 1..(k - 1) :
                  CreatedOf(ret.files[i]) >= CreatedOf(ret.files[i + 1])

\* Three objects listed with the times 2, 3, 1 are returned newest first.
C30_Witness ==
  /\ ReturnedFrom("getServerBackupsToDownload")
  /\ ~call.fails
  /\ config.FilesToDownload.ServerBackups = 3
  /\ Len(remote[call.bucket]) = 3
  /\ [i \in 1..3 |-> remote[call.bucket][i].Created] = <<2, 3, 1>>
  /\ ret.files = <<<<"o", "2">>, <<"o", "1">>, <<"o", "3">>>>

(***************************************************************************)
(* The download pipeline on keys of every form: a photo key, a key without *)
(* the photo form and a key with the photo form behind a leading directory.*)
(***************************************************************************)
InitDest ==
  LET nested == <<"s", "/">> \o K1
      keys == {K1, K3, nested}
  IN  /\ pc = "dlBucket"
      /\ remote = (B1 :> <<Obj(K1, 0, CA), Obj(K3, 0, CB), Obj(nested, 0, CB)>>)
      /\ now = Clock(0, EpochYear, 1)
      /\ \E r \in 0..MaxRetriesBound :
           config = [DefaultConfig EXCEPT !.MaxDownloadRetries = r]
      /\ localFiles = EmptyFS
      /\ inProgressFile = NoFile
      /\ bucketToFilesMapping = <<>>
      /\ call = NoCall
      /\ ret = Nil
      /\ sample = NoSample
      /\ \E f \in SeqUpTo(keys, MaxFiles) \ {<<>>} : mapping = <<BucketAndFiles(B1, f)>>
      /\ bi = 1
      /\ fi = 1
      /\ retryCount = 0
      /\ bucketName = <<>>
      /\ nameErr = Nil
      /\ dlErr = Nil
      /\ calls = 1
      /\ hist = NoHist

SpecDest == InitDest /\ [][NextDownload]_vars

\* The destination of a key as the specification gives it: the year
\* directory for a key that is 'YYYY-MM/filename', the key itself otherwise.
ClaimedDest(root, bname, key) ==
  IF PhotoMatchAt(key, 1)
  THEN JoinPath(<<root, bname, SubSeq(key, 1, 4), SubSeq(key, 9, Len(key))>>)
  ELSE JoinPath(<<root, bname, key>>)

\* C21: the local file a step of downloadFilesFromBucket writes for a key is
\* {downloadRoot}/{bucketName}/YYYY/filename if the key is
\* 'YYYY-MM/filename' and {downloadRoot}/{bucketName}/{key} for every other
\* key, a key with 'YYYY-MM/' behind a leading directory included.
C21_DestOfKey ==
  [][\A p \in DOMAIN localFiles' :
       (p \notin DOMAIN localFiles \/ localFiles'[p] # localFiles[p]) =>
         p = ClaimedDest(config.FileDownloadLocation, bucketName, CurKey)]_vars

(***************************************************************************)
(* The download pipeline run to its end (SpecRetry): every value of        *)
(* MaxDownloadRetries an int can hold, the negative and the largest        *)
(* included.  A call that has begun goes on: the code has no step at which *)
(* it waits.                                                               *)
(***************************************************************************)
InitRetry ==
  /\ pc = "dlBucket"
  /\ remote = RemoteStore
  /\ now = Clock(0, EpochYear, 1)
  /\ \E r \in {-1, 0, MaxInt} : config = [DefaultConfig EXCEPT !.MaxDownloadRetries = r]
  /\ localFiles = EmptyFS
  /\ inProgressFile = NoFile
  /\ bucketToFilesMapping = <<>>
  /\ call = NoCall
  /\ ret = Nil
  /\ sample = NoSample
  /\ mapping \in {<<>>, <<BucketAndFiles(B1, <<K1>>)>>}
  /\ bi = 1
  /\ fi = 1
  /\ retryCount = 0
  /\ bucketName = <<>>
  /\ nameErr = Nil
  /\ dlErr = Nil
  /\ calls = 1
  /\ hist = NoHist

SpecRetry == InitRetry /\ [][NextDownload]_vars /\ WF_vars(NextDownload)

\* C37: for every mapping, every MaxDownloadRetries and every pattern of
\* failures of the downloads a call of downloadFilesFromBucketAndFiles ends,
\* with success or with an error: no key is retried for ever.
C37_PipelineTerminates ==
  <>(pc \in {"dlReturned", "crashed"})

(***************************************************************************)
(* getRandomSampleFromPopulation run to its end (SpecDraw).  A pass of the *)
(* loop that draws an index already in the sample changes nothing; the     *)
(* random source is fair: while an index is missing, an index not yet in   *)
(* the sample is drawn at some time.                                       *)
(***************************************************************************)
\* The result is the nil slice until the function returns.
InitDraw ==
  /\ pc = "call"
  /\ \E c \in RandomCases :
       /\ call = c.call
       /\ remote = c.remote
       /\ config = c.config
       /\ now = c.now
  /\ localFiles = EmptyFS
  /\ inProgressFile = NoFile
  /\ bucketToFilesMapping = <<>>
  /\ mapping = <<>>
  /\ bi = 1
  /\ fi = 1
  /\ retryCount = 0
  /\ bucketName = <<>>
  /\ nameErr = Nil
  /\ dlErr = Nil
  /\ calls = 1
  /\ ret = <<>>
  /\ sample = NoSample
  /\ hist = NoHist

NextDraw ==
  \/ CallGetRandomSampleFromPopulation
  \/ RandomDraw
  \/ RandomReturn

SpecDraw ==
  /\ InitDraw
  /\ [][NextDraw]_vars
  /\ WF_pc(CallGetRandomSampleFromPopulation)
  /\ WF_sample(RandomDraw)
  /\ WF_pc(RandomReturn)

\* C38: getRandomSampleFromPopulation ends for all arguments: for
\* sampleSize <= 0 and for sampleSize > population its first step is the
\* return, and for 0 < sampleSize <= population the loop is left, once
\* sampleSize different indices are in the sample, under fair draws.
C38_SampleTerminates ==
  /\ [][(/\ pc = "call"
         /\ (call.sampleSize <= 0 \/ call.sampleSize > call.population))
          => pc' = "returned"]_pc
  /\ [](pc = "draw" => sample.i <= call.sampleSize)
  /\ <>(pc = "returned")

\* The loop has run and ended with a sample smaller than the population.
C38_Witness ==
  /\ ReturnedFrom("getRandomSampleFromPopulation")
  /\ call.population = MaxPopulation
  /\ call.sampleSize = MaxPopulation - 1
  /\ sample.i = call.sampleSize
  /\ ret = sample.slots
  /\ IsInjective(ret)
====
